---- MODULE Spec2Model ----
(***************************************************************************)
(* Seasonal billing-phase scheduler: service-area resolver, UTC month      *)
(* helpers, timeline builder, signup phase emitter, compact rule codec,    *)
(* signup POST handler and the webhook schedule reconciler.                *)
(*                                                                         *)
(* Time is measured in whole days.  Day 365 * y + d is day d of model year *)
(* y; model year Y2025 stands for 2025 and all modelled years have 365     *)
(* days (2025..2027 are not leap years).  Strings are sequences of         *)
(* one-character strings.  An optional value is a sequence of length 0     *)
(* (absent) or 1 (present).                                                *)
(***************************************************************************)
EXTENDS Integers, Sequences, FiniteSets, TLC

(* ------------------------------------------------------------------ *)
(* Generic helpers                                                     *)
(* ------------------------------------------------------------------ *)

Range(s) == { s[i] : i \in 1..Len(s) }

SetMin(S) == CHOOSE x \in S : \A y \in S : x <= y

SetMax(S) == CHOOSE x \in S : \A y \in S : x >= y

RECURSIVE SortAsc(_)
\* Array.from(new Set(xs)).sort((a, b) => a - b) of a set of numbers
SortAsc(S) == IF S = {} THEN <<>> ELSE <<SetMin(S)>> \o SortAsc(S \ {SetMin(S)})

RECURSIVE FilterSeq(_, _)
\* xs.filter(i => keep[i]) where keep is a boolean sequence of the same length
FilterSeq(xs, keep) ==
  IF xs = <<>> THEN <<>>
  ELSE (IF Head(keep) THEN <<Head(xs)>> ELSE <<>>) \o FilterSeq(Tail(xs), Tail(keep))

RECURSIVE Flatten(_)
Flatten(xss) == IF xss = <<>> THEN <<>> ELSE Head(xss) \o Flatten(Tail(xss))

\* all sequences over S of length 0..n
SeqsUpTo(S, n) == UNION { [1..k -> S] : k \in 0..n }

(* ------------------------------------------------------------------ *)
(* UTC month helpers (src/src/lib/date/utcMonth.ts)                    *)
(* ------------------------------------------------------------------ *)

DaysPerYear == 365

\* first day of month0 = 0..11 within a year (Date.UTC for a non-leap year)
MonthOffset == <<0, 31, 59, 90, 120, 151, 181, 212, 243, 273, 304, 334>>

\* Date.UTC(year, month0, 1) / 1000; month0 >= 12 rolls into the next year
startOfMonthUtcEpoch(year, month0) ==
  (year + (month0 \div 12)) * DaysPerYear + MonthOffset[(month0 % 12) + 1]

getUTCFullYear(t) == t \div DaysPerYear

getUTCMonth(t) ==
  SetMax({ m \in 0..11 : MonthOffset[m + 1] <= t % DaysPerYear })

nextMonthFirstEpoch(nowSec) ==
  startOfMonthUtcEpoch(getUTCFullYear(nowSec), getUTCMonth(nowSec) + 1)

\* variant of the loop condition that also admits cur = maxEnd
loopContinues_inclusive(cur, maxEnd) == cur <= maxEnd

\* while (cur < maxEnd)
loopContinues(cur, maxEnd) == cur < maxEnd

\* variant that always starts at the month start after minStart
firstMonthStart_strict(minStart) ==
  startOfMonthUtcEpoch(getUTCFullYear(minStart), getUTCMonth(minStart) + 1)

\* const first: the month start of minStart when that is not before minStart,
\* else the next one
firstMonthStart(minStart) ==
  IF startOfMonthUtcEpoch(getUTCFullYear(minStart), getUTCMonth(minStart)) < minStart
  THEN startOfMonthUtcEpoch(getUTCFullYear(minStart), getUTCMonth(minStart) + 1)
  ELSE startOfMonthUtcEpoch(getUTCFullYear(minStart), getUTCMonth(minStart))

RECURSIVE monthStartsFrom(_, _)
\* the while loop of monthStartsBetween: push cur, step one month, until cur >= maxEnd
monthStartsFrom(cur, maxEnd) ==
  IF loopContinues(cur, maxEnd)
  THEN <<cur>> \o monthStartsFrom(
         startOfMonthUtcEpoch(getUTCFullYear(cur), getUTCMonth(cur) + 1), maxEnd)
  ELSE <<>>

monthStartsBetween(minStart, maxEnd) == monthStartsFrom(firstMonthStart(minStart), maxEnd)

monthsBetweenEpochs(startEpoch, endEpoch) == Len(monthStartsBetween(startEpoch, endEpoch))

IsMonthStart(t) == startOfMonthUtcEpoch(getUTCFullYear(t), getUTCMonth(t)) = t

(* ------------------------------------------------------------------ *)
(* Strings                                                             *)
(* ------------------------------------------------------------------ *)

UpperChars == <<"A","B","C","D","E","F","G","H","I","J","K","L","M",
                "N","O","P","Q","R","S","T","U","V","W","X","Y","Z">>

LowerChars == <<"a","b","c","d","e","f","g","h","i","j","k","l","m",
                "n","o","p","q","r","s","t","u","v","w","x","y","z">>

toLowerChar(c) ==
  IF \E i \in 1..26 : UpperChars[i] = c
  THEN LowerChars[CHOOSE i \in 1..26 : UpperChars[i] = c]
  ELSE c

toLowerCase(s) == [i \in 1..Len(s) |-> toLowerChar(s[i])]

RECURSIVE trimStart(_)
trimStart(s) == IF s # <<>> /\ Head(s) = " " THEN trimStart(Tail(s)) ELSE s

RECURSIVE trimEnd(_)
trimEnd(s) ==
  IF s # <<>> /\ s[Len(s)] = " " THEN trimEnd(SubSeq(s, 1, Len(s) - 1)) ELSE s

trim(s) == trimEnd(trimStart(s))

\* s.slice(0, n)
sliceTo(s, n) == SubSeq(s, 1, IF Len(s) < n THEN Len(s) ELSE n)

startsWith(s, p) == Len(p) <= Len(s) /\ SubSeq(s, 1, Len(p)) = p

norm(s) == toLowerCase(trim(s))

ZipLen == 5

cleanZip(z) == sliceTo(trim(z), ZipLen)

(* ------------------------------------------------------------------ *)
(* Service-area rules (src/src/lib/date/utcMonth.ts, lines 34..159)    *)
(* ------------------------------------------------------------------ *)

Y2025 == 1

Mon == 1
Tue == 2
Wed == 3
Thu == 4
Fri == 5
Sat == 6

\* Date.UTC(2025, month0, day) / 1000 in model days
DateUTC(year, month0, day) == startOfMonthUtcEpoch(year, month0) + (day - 1)

sTopsailBeach == <<"T","o","p","s","a","i","l"," ","B","e","a","c","h">>
sSurfCity == <<"S","u","r","f"," ","C","i","t","y">>
sNorthTopsailBeach == <<"N","o","r","t","h"," ">> \o sTopsailBeach
sWilmington == <<"W","i","l","m","i","n","g","t","o","n">>

AREA_RULES == <<
  [city |-> sTopsailBeach, zipPrefix |-> <<>>, baseDay |-> Mon, secondaryDay |-> <<Thu>>,
   season |-> <<[startUTC |-> DateUTC(Y2025, 4, 26), endUTC |-> DateUTC(Y2025, 8, 1)]>>],
  [city |-> sSurfCity, zipPrefix |-> <<>>, baseDay |-> Tue, secondaryDay |-> <<Fri>>,
   season |-> <<[startUTC |-> DateUTC(Y2025, 4, 1), endUTC |-> DateUTC(Y2025, 8, 30)]>>],
  [city |-> sNorthTopsailBeach, zipPrefix |-> <<>>, baseDay |-> Wed, secondaryDay |-> <<Sat>>,
   season |-> <<[startUTC |-> DateUTC(Y2025, 4, 2), endUTC |-> DateUTC(Y2025, 9, 26)]>>],
  [city |-> sWilmington, zipPrefix |-> <<"2","8","4","0","1">>, baseDay |-> Tue,
   secondaryDay |-> <<>>, season |-> <<>>],
  [city |-> <<>>, zipPrefix |-> <<"2","8","4">>, baseDay |-> Tue,
   secondaryDay |-> <<>>, season |-> <<>>] >>

\* rules.find((r) => r.city && norm(r.city) === city): index of the first, 0 when none
byCityIndex(city, rules) ==
  LET M == { i \in 1..Len(rules) : rules[i].city # <<>> /\ norm(rules[i].city) = city }
  IN  IF M = {} THEN 0 ELSE SetMin(M)

byZipIndex_firstMatch(zip, rules) ==
  LET M == { i \in 1..Len(rules) :
               rules[i].zipPrefix # <<>> /\ startsWith(zip, rules[i].zipPrefix) }
  IN  IF M = {} THEN 0 ELSE SetMin(M)

\* rules.filter(zip prefix matches).sort(longer prefix first)[0]: the stable sort
\* keeps table order among prefixes of equal length; 0 when no rule matches
byZipIndex(zip, rules) ==
  LET M == { i \in 1..Len(rules) :
               rules[i].zipPrefix # <<>> /\ startsWith(zip, rules[i].zipPrefix) }
  IN  IF M = {} THEN 0
      ELSE SetMin({ i \in M : \A j \in M : Len(rules[j].zipPrefix) <= Len(rules[i].zipPrefix) })

\* the result is <<>> for null, else one record
resolveRuleForAddress(addr, rules) ==
  LET city   == norm(addr.city)
      byCity == byCityIndex(city, rules)
      zip    == cleanZip(addr.zip)
      byZip  == byZipIndex(zip, rules)
  IN  IF byCity # 0
      THEN <<[baseDay |-> rules[byCity].baseDay, secondaryDay |-> rules[byCity].secondaryDay,
              season |-> rules[byCity].season, matchedBy |-> "city"]>>
      ELSE IF byZip # 0
      THEN <<[baseDay |-> rules[byZip].baseDay, secondaryDay |-> rules[byZip].secondaryDay,
              season |-> rules[byZip].season, matchedBy |-> "zipPrefix"]>>
      ELSE <<>>

\* src/src/lib/season/windows.ts: a service record carries city and postalCode
seasonWindowsForAddress(svc, refEpoch) ==
  LET rule == resolveRuleForAddress([city |-> svc.city, zip |-> svc.zip], AREA_RULES)
  IN  IF rule = <<>> \/ rule[1].season = <<>> THEN <<>>
      ELSE IF refEpoch < rule[1].season[1].endUTC
      THEN <<[start |-> rule[1].season[1].startUTC, end |-> rule[1].season[1].endUTC]>>
      ELSE <<>>

(* ------------------------------------------------------------------ *)
(* Timeline builder (phaseBuilder: src/unnamed/part_006)               *)
(* ------------------------------------------------------------------ *)

\* selections[i]?.seasonal_2nd
selected(selections, i) == i <= Len(selections) /\ selections[i]

\* the windows buildTimeline collects: one per opted-in service with a live season
signupWindows(services, selections, refEpoch) ==
  Flatten([i \in 1..Len(services) |->
             IF selected(selections, i)
             THEN seasonWindowsForAddress(services[i], refEpoch) ELSE <<>>])

timelineSlices_wide(windows) ==
  LET rawEdges   == { windows[i].start : i \in 1..Len(windows) }
                      \cup { windows[i].end : i \in 1..Len(windows) }
      minStart   == SetMin({ windows[i].start : i \in 1..Len(windows) })
      maxEnd     == SetMax({ windows[i].end : i \in 1..Len(windows) })
      monthEdges == Range(monthStartsBetween(minStart, maxEnd + 31))
      boundaries == SortAsc(rawEdges \cup monthEdges)
      slice(i)   == [start |-> boundaries[i], end |-> boundaries[i + 1],
                     seasonalActiveCount |->
                       Cardinality({ k \in 1..Len(windows) :
                                       /\ windows[k].start <= boundaries[i]
                                       /\ windows[k].end >= boundaries[i + 1] })]
  IN  FilterSeq([i \in 1..(Len(boundaries) - 1) |-> slice(i)],
                [i \in 1..(Len(boundaries) - 1) |-> boundaries[i] < boundaries[i + 1]])

\* boundaries = window edges and month starts, sorted and deduplicated; one slice
\* per consecutive pair, counting the windows that contain it (windows non-empty)
timelineSlices(windows) ==
  LET rawEdges   == { windows[i].start : i \in 1..Len(windows) }
                      \cup { windows[i].end : i \in 1..Len(windows) }
      minStart   == SetMin({ windows[i].start : i \in 1..Len(windows) })
      maxEnd     == SetMax({ windows[i].end : i \in 1..Len(windows) })
      monthEdges == Range(monthStartsBetween(minStart, maxEnd))
      boundaries == SortAsc(rawEdges \cup monthEdges)
      slice(i)   == [start |-> boundaries[i], end |-> boundaries[i + 1],
                     seasonalActiveCount |->
                       Cardinality({ k \in 1..Len(windows) :
                                       /\ windows[k].start <= boundaries[i]
                                       /\ windows[k].end >= boundaries[i + 1] })]
  IN  FilterSeq([i \in 1..(Len(boundaries) - 1) |-> slice(i)],
                [i \in 1..(Len(boundaries) - 1) |-> boundaries[i] < boundaries[i + 1]])

buildTimeline(services, selections, refEpoch) ==
  LET windows == signupWindows(services, selections, refEpoch)
  IN  IF windows = <<>> THEN <<>> ELSE timelineSlices(windows)

\* a compact rule is [c, z, b, s, ss, se]; a seasonal window needs s # -1, ss > 0, se > ss
seasonalWindows(addrRules) ==
  LET keep == [i \in 1..Len(addrRules) |->
                 addrRules[i].s # -1 /\ addrRules[i].ss > 0 /\ addrRules[i].se > addrRules[i].ss]
      wins == [i \in 1..Len(addrRules) |-> [start |-> addrRules[i].ss, end |-> addrRules[i].se]]
  IN  FilterSeq(wins, keep)

\* buildSeasonalTimeline up to its last statement: all slices, field qty
seasonalSlices(addrRules) ==
  LET windows == seasonalWindows(addrRules)
      sl      == IF windows = <<>> THEN <<>> ELSE timelineSlices(windows)
  IN  [i \in 1..Len(sl) |->
         [start |-> sl[i].start, end |-> sl[i].end, qty |-> sl[i].seasonalActiveCount]]

buildSeasonalTimeline(addrRules, refStart) ==
  LET sl == seasonalSlices(addrRules)
  IN  FilterSeq(sl, [i \in 1..Len(sl) |-> sl[i].end > refStart])

(* ------------------------------------------------------------------ *)
(* Signup phase emitter (src/unnamed/part_006, buildSignupPhases)      *)
(* ------------------------------------------------------------------ *)

\* 90 days (lib/stripe/constants), in days
NINETY_DAYS_SEC == 90

\* a phase is [end_date, duration, items]; end_date and duration are optional
baseItem(qty) == [price |-> "base", quantity |-> qty]

seasonalItem(qty) == [price |-> "seasonal", quantity |-> qty]

openEndedPhase(baseQty) ==
  [end_date |-> <<>>, duration |-> <<>>, items |-> <<baseItem(baseQty)>>]

boundedPhase(end, baseQty, seasonalQty) ==
  [end_date |-> <<end>>, duration |-> <<>>,
   items |-> IF seasonalQty > 0 THEN <<baseItem(baseQty), seasonalItem(seasonalQty)>>
             ELSE <<baseItem(baseQty)>>]

isOpenEnded(p) == p.end_date = <<>> /\ p.duration = <<>>

\* part_006 lines 141-166: a month-count duration when monthsBetweenEpochs > 0,
\* else an explicit end date
timelineToPhases(timeline, baseQty) ==
  [i \in 1..Len(timeline) |->
     [boundedPhase(timeline[i].end, baseQty, timeline[i].seasonalActiveCount) EXCEPT
        !.end_date = IF monthsBetweenEpochs(timeline[i].start, timeline[i].end) > 0
                     THEN <<>> ELSE @,
        !.duration = IF monthsBetweenEpochs(timeline[i].start, timeline[i].end) > 0
                     THEN <<monthsBetweenEpochs(timeline[i].start, timeline[i].end)>>
                     ELSE <<>>]]

RECURSIVE stepMonths(_, _)
stepMonths(startSec, n) ==
  IF n = 0 THEN startSec ELSE stepMonths(nextMonthFirstEpoch(startSec), n - 1)

RECURSIVE cursorAfter(_, _)
\* the cursorEnd loop: walk the phases, following end dates and month durations
cursorAfter(phases, cursorEnd) ==
  IF phases = <<>> THEN cursorEnd
  ELSE LET p == Head(phases)
       IN  cursorAfter(Tail(phases),
             IF p.end_date # <<>> THEN p.end_date[1]
             ELSE IF p.duration # <<>> THEN stepMonths(cursorEnd, p.duration[1])
             ELSE nextMonthFirstEpoch(cursorEnd))

\* variant that counts the windows of every service, opted in or not
seasonalPreQty_anySelection(services, selections, nowEpoch, nextFirst) ==
  Cardinality({ i \in 1..Len(services) :
     \E w \in Range(seasonWindowsForAddress(services[i], nowEpoch)) :
        w.start < nextFirst /\ w.end > nowEpoch })

\* variant that counts only windows that have already begun at nowEpoch
seasonalPreQty_begun(services, selections, nowEpoch, nextFirst) ==
  Cardinality({ i \in 1..Len(services) :
     /\ selected(selections, i)
     /\ \E w \in Range(seasonWindowsForAddress(services[i], nowEpoch)) :
          w.start <= nowEpoch /\ w.end > nowEpoch })

\* seasonal qty overlapping the pre-phase [now, nextFirst)
seasonalPreQty(services, selections, nowEpoch, nextFirst) ==
  Cardinality({ i \in 1..Len(services) :
     /\ selected(selections, i)
     /\ \E w \in Range(seasonWindowsForAddress(services[i], nowEpoch)) :
          w.start < nextFirst /\ w.end > nowEpoch })

\* variant without the 90-day horizon
emittedSlices_noHorizon(full, nextFirst) ==
  FilterSeq(full, [i \in 1..Len(full) |-> full[i].start >= nextFirst])

\* variant that drops the slice starting exactly at the anchor
emittedSlices_strictAnchor(full, nextFirst) ==
  FilterSeq(full, [i \in 1..Len(full) |->
                  full[i].start > nextFirst
                  /\ full[i].start <= nextFirst + NINETY_DAYS_SEC])

\* timelineAfter, then the slices the loop at lines 247..265 keeps
emittedSlices(full, nextFirst) ==
  LET after == FilterSeq(full, [i \in 1..Len(full) |->
                  full[i].start >= nextFirst
                  /\ full[i].start <= nextFirst + NINETY_DAYS_SEC])
  IN  FilterSeq(after, [i \in 1..Len(after) |-> after[i].start >= nextFirst])

signupStub(services, selections, nowEpoch) ==
  boundedPhase(nextMonthFirstEpoch(nowEpoch), Len(services),
               seasonalPreQty(services, selections, nowEpoch, nextMonthFirstEpoch(nowEpoch)))

\* lines 230..270: pre-phase, one phase per kept slice, open-ended tail
signupFirstPass(services, selections, nowEpoch, kept) ==
  (IF nextMonthFirstEpoch(nowEpoch) > nowEpoch
   THEN <<signupStub(services, selections, nowEpoch)>> ELSE <<>>)
  \o [i \in 1..Len(kept) |->
        boundedPhase(kept[i].end, Len(services), kept[i].seasonalActiveCount)]
  \o <<openEndedPhase(Len(services))>>

\* starts of the windows of the opted-in services
signupWindowStarts(services, selections, nowEpoch) ==
  { w.start : w \in
      UNION { Range(seasonWindowsForAddress(services[i], nowEpoch)) :
                i \in { k \in 1..Len(services) : selected(selections, k) } } }

\* typeof earliestSeasonalStart === "number" && earliestSeasonalStart - cursorEnd <= 90 days
seasonalStartsSoon(starts, cursorEnd) ==
  \E st \in starts :
     /\ st >= cursorEnd
     /\ \A o \in starts : o >= cursorEnd => st <= o
     /\ st - cursorEnd <= NINETY_DAYS_SEC

\* lines 335..346: ensure a terminal open-ended phase
ensureOpenTail(phases, baseQty) ==
  IF ~isOpenEnded(phases[Len(phases)]) THEN phases \o <<openEndedPhase(baseQty)>> ELSE phases

\* lines 272..346 on the list p1 built so far: the pre-phase is unshifted again,
\* then the tail check and the final guarantee
signupSecondPass(services, selections, nowEpoch, p1) ==
  LET nextFirst == nextMonthFirstEpoch(nowEpoch)
      p2        == <<signupStub(services, selections, nowEpoch)>> \o p1
      soon      == seasonalStartsSoon(signupWindowStarts(services, selections, nowEpoch),
                                      cursorAfter(p2, nextFirst))
  IN  IF nextFirst > nowEpoch
      THEN ensureOpenTail(
             IF ~isOpenEnded(p2[Len(p2)]) /\ ~soon
             THEN p2 \o <<openEndedPhase(Len(services))>> ELSE p2,
             Len(services))
      ELSE ensureOpenTail(p1, Len(services))

\* the one element of a singleton set (binds an intermediate result once)
Only(S) == CHOOSE x \in S : TRUE

buildSignupPhases_noTail(services, selections, nowEpoch) ==
  [phases |->
     Only({ <<signupStub(services, selections, nowEpoch)>>
            \o [i \in 1..Len(kept) |->
                  boundedPhase(kept[i].end, Len(services), kept[i].seasonalActiveCount)] :
            kept \in { emittedSlices(buildTimeline(services, selections, nowEpoch),
                                     nextMonthFirstEpoch(nowEpoch)) } }),
   nextFirst |-> nextMonthFirstEpoch(nowEpoch), baseQty |-> Len(services)]

buildSignupPhases(services, selections, nowEpoch) ==
  [phases |->
     Only({ signupSecondPass(services, selections, nowEpoch, p1) :
            p1 \in { signupFirstPass(services, selections, nowEpoch, kept) :
                     kept \in { emittedSlices(full, nextMonthFirstEpoch(nowEpoch)) :
                                full \in { buildTimeline(services, selections, nowEpoch) } } } }),
   nextFirst |-> nextMonthFirstEpoch(nowEpoch), baseQty |-> Len(services)]

(* ------------------------------------------------------------------ *)
(* Compact rule codec (part_003 chunkForMetadata, part_006 decoding)   *)
(* ------------------------------------------------------------------ *)

Digits == <<"0","1","2","3","4","5","6","7","8","9">>

RECURSIVE digitsOf(_)
\* decimal digits of n >= 0
digitsOf(n) ==
  IF n < 10 THEN <<Digits[n + 1]>> ELSE digitsOf(n \div 10) \o <<Digits[(n % 10) + 1]>>

numText(n) == IF n < 0 THEN <<"-">> \o digitsOf(0 - n) ELSE digitsOf(n)

strText(s) == <<"\"">> \o s \o <<"\"">>

\* JSON.stringify of one compact rule (strings carry no quote or backslash)
ruleText(r) ==
  <<"{","\"","c","\"",":">> \o strText(r.c)
  \o <<",","\"","z","\"",":">> \o strText(r.z)
  \o <<",","\"","b","\"",":">> \o numText(r.b)
  \o <<",","\"","s","\"",":">> \o numText(r.s)
  \o <<",","\"","s","s","\"",":">> \o numText(r.ss)
  \o <<",","\"","s","e","\"",":">> \o numText(r.se)
  \o <<"}">>

RECURSIVE joinRules(_)
joinRules(rules) ==
  IF rules = <<>> THEN <<>>
  ELSE IF Len(rules) = 1 THEN ruleText(rules[1])
  ELSE ruleText(rules[1]) \o <<",">> \o joinRules(Tail(rules))

\* JSON.stringify(addrRules)
stringifyRules(rules) == <<"[">> \o joinRules(rules) \o <<"]">>

PerFieldMax == 480

sAddrRules == <<"a","d","d","r","_","r","u","l","e","s">>

\* `${prefix}_${i}`
chunkKey(prefix, i) == prefix \o <<"_">> \o digitsOf(i)

\* number of chunks the while loop of chunkForMetadata writes
chunkCount(len, perFieldMax) == (len + perFieldMax - 1) \div perFieldMax

\* the record of chunks: a function from keys to texts
chunkForMetadata(prefix, json, perFieldMax) ==
  IF Len(json) <= perFieldMax
  THEN [k \in {prefix} |-> json]
  ELSE LET n == chunkCount(Len(json), perFieldMax)
           lo(i) == (i - 1) * perFieldMax + 1
           hi(i) == IF i * perFieldMax < Len(json) THEN i * perFieldMax ELSE Len(json)
       IN  [k \in { chunkKey(prefix, i) : i \in 1..n } |->
              LET i == CHOOSE j \in 1..n : chunkKey(prefix, j) = k
              IN  SubSeq(json, lo(i), hi(i))]

isDigit(c) == \E d \in 1..10 : Digits[d] = c

digitVal(c) == (CHOOSE d \in 1..10 : Digits[d] = c) - 1

RECURSIVE parseInt(_)
\* parseInt(text, 10) of a non-empty string of digits
parseInt(ds) ==
  IF Len(ds) = 1 THEN digitVal(ds[1])
  ELSE 10 * parseInt(SubSeq(ds, 1, Len(ds) - 1)) + digitVal(ds[Len(ds)])

\* k === "addr_rules" || /^addr_rules_\d+$/.test(k)
isAddrRulesKey(k) ==
  \/ k = sAddrRules
  \/ /\ Len(k) > Len(sAddrRules) + 1
     /\ SubSeq(k, 1, Len(sAddrRules) + 1) = sAddrRules \o <<"_">>
     /\ \A j \in (Len(sAddrRules) + 2)..Len(k) : isDigit(k[j])

\* variant that reads only the first digit of the suffix
keyNumber_firstDigit(k) == digitVal(k[Len(sAddrRules) + 2])

\* parseInt(a.split("_")[2] || "0", 10) for a suffixed key
keyNumber(k) == parseInt(SubSeq(k, Len(sAddrRules) + 2, Len(k)))

RECURSIVE sortKeys(_)
\* the comparator puts "addr_rules" first and orders the rest by number
sortKeys(K) ==
  IF K = {} THEN <<>>
  ELSE LET first ==
             IF sAddrRules \in K THEN sAddrRules
             ELSE CHOOSE k \in K : \A o \in K : keyNumber(k) <= keyNumber(o)
       IN  <<first>> \o sortKeys(K \ {first})

\* --- JSON.parse of a chunk, for texts cut out of stringifyRules output ---
\* a parse result is [ok, val, next]: next is the first position not consumed

litAt(text, pos, lit) ==
  pos + Len(lit) - 1 <= Len(text) /\ SubSeq(text, pos, pos + Len(lit) - 1) = lit

parseString(text, pos) ==
  IF pos <= Len(text) /\ text[pos] = "\""
     /\ \E j \in (pos + 1)..Len(text) : text[j] = "\""
  THEN LET j == SetMin({ q \in (pos + 1)..Len(text) : text[q] = "\"" })
       IN  [ok |-> TRUE, val |-> SubSeq(text, pos + 1, j - 1), next |-> j + 1]
  ELSE [ok |-> FALSE, val |-> <<>>, next |-> pos]

parseNumber(text, pos) ==
  LET neg   == pos <= Len(text) /\ text[pos] = "-"
      from  == IF neg THEN pos + 1 ELSE pos
      stop  == IF \E j \in from..Len(text) : ~isDigit(text[j])
               THEN SetMin({ j \in from..Len(text) : ~isDigit(text[j]) })
               ELSE Len(text) + 1
  IN  IF stop > from
      THEN [ok |-> TRUE,
            val |-> IF neg THEN 0 - parseInt(SubSeq(text, from, stop - 1))
                    ELSE parseInt(SubSeq(text, from, stop - 1)),
            next |-> stop]
      ELSE [ok |-> FALSE, val |-> 0, next |-> pos]

\* Number(str) for the string values met in stored rules: "" gives 0, a decimal
\* integer its value, any other text NaN
NaN == "NaN"

isIntegerText(str) ==
  LET from == IF str # <<>> /\ str[1] = "-" THEN 2 ELSE 1
  IN  from <= Len(str) /\ \A j \in from..Len(str) : isDigit(str[j])

Number(str) ==
  IF str = <<>> THEN 0
  ELSE IF ~isIntegerText(str) THEN NaN
  ELSE IF str[1] = "-" THEN 0 - parseInt(Tail(str)) ELSE parseInt(str)

\* typeof r.x === "number" ? r.x : Number(r.x), for a number or string literal
parseNumeric(text, pos) ==
  IF pos <= Len(text) /\ text[pos] = "\""
  THEN LET str == parseString(text, pos)
       IN  IF str.ok THEN [ok |-> TRUE, val |-> Number(str.val), next |-> str.next]
           ELSE [ok |-> FALSE, val |-> 0, next |-> pos]
  ELSE parseNumber(text, pos)

parseRule(text, pos) ==
  LET fail == [ok |-> FALSE, val |-> <<>>, next |-> pos]
      kc   == <<"{","\"","c","\"",":">>
      kz   == <<",","\"","z","\"",":">>
      kb   == <<",","\"","b","\"",":">>
      ks   == <<",","\"","s","\"",":">>
      kss  == <<",","\"","s","s","\"",":">>
      kse  == <<",","\"","s","e","\"",":">>
  IN  IF ~litAt(text, pos, kc) THEN fail ELSE
      LET c == parseString(text, pos + Len(kc)) IN
      IF ~c.ok \/ ~litAt(text, c.next, kz) THEN fail ELSE
      LET z == parseString(text, c.next + Len(kz)) IN
      IF ~z.ok \/ ~litAt(text, z.next, kb) THEN fail ELSE
      LET b == parseNumeric(text, z.next + Len(kb)) IN
      IF ~b.ok \/ ~litAt(text, b.next, ks) THEN fail ELSE
      LET sd == parseNumeric(text, b.next + Len(ks)) IN
      IF ~sd.ok \/ ~litAt(text, sd.next, kss) THEN fail ELSE
      LET ss == parseNumeric(text, sd.next + Len(kss)) IN
      IF ~ss.ok \/ ~litAt(text, ss.next, kse) THEN fail ELSE
      LET se == parseNumeric(text, ss.next + Len(kse)) IN
      IF ~se.ok \/ ~litAt(text, se.next, <<"}">>) THEN fail ELSE
      [ok |-> TRUE,
       val |-> [c |-> c.val, z |-> z.val, b |-> b.val, s |-> sd.val,
                ss |-> ss.val, se |-> se.val],
       next |-> se.next + 1]

RECURSIVE parseElements(_, _, _)
\* after "[" or ",": one rule, then "," and more, or "]" as the last character
parseElements(text, pos, acc) ==
  LET r == parseRule(text, pos)
  IN  IF ~r.ok THEN [ok |-> FALSE, val |-> <<>>]
      ELSE IF litAt(text, r.next, <<"]">>) /\ r.next = Len(text)
      THEN [ok |-> TRUE, val |-> Append(acc, r.val)]
      ELSE IF litAt(text, r.next, <<",">>)
      THEN parseElements(text, r.next + 1, Append(acc, r.val))
      ELSE [ok |-> FALSE, val |-> <<>>]

\* JSON.parse(text) succeeded and Array.isArray: [ok, val]
parseRuleArray(text) ==
  IF text = <<"[","]">> THEN [ok |-> TRUE, val |-> <<>>]
  ELSE IF litAt(text, 1, <<"[">>) THEN parseElements(text, 2, <<>>)
  ELSE [ok |-> FALSE, val |-> <<>>]

\* meta is a function from keys to texts; chunks that do not parse are skipped
readAddrRulesFromMeta(meta) ==
  LET keys == sortKeys({ k \in DOMAIN meta : isAddrRulesKey(k) })
  IN  Flatten([i \in 1..Len(keys) |->
                 IF parseRuleArray(meta[keys[i]]).ok
                 THEN parseRuleArray(meta[keys[i]]).val ELSE <<>>])

\* JSON.stringify then chunkForMetadata("addr_rules", ...), as POST does
encodeAddrRules(rules) == chunkForMetadata(sAddrRules, stringifyRules(rules), PerFieldMax)

(* ------------------------------------------------------------------ *)
(* Signup POST handler (src/unnamed/part_003)                          *)
(* ------------------------------------------------------------------ *)

sAddrMini == <<"a","d","d","r","_","m","i","n","i">>
sServiceAddresses == <<"s","e","r","v","i","c","e","_","a","d","d","r","e","s","s","e","s">>
sServiceAddressCount == <<"s","e","r","v","i","c","e","_","a","d","d","r","e","s","s","_","c","o","u","n","t">>
sSignupAccountType == <<"s","i","g","n","u","p","_","a","c","c","o","u","n","t","_","t","y","p","e">>
sScheduleIdem == <<"s","c","h","e","d","u","l","e","_","i","d","e","m">>
sSchedulePhaseCount == <<"s","c","h","e","d","u","l","e","_","p","h","a","s","e","_","c","o","u","n","t">>
sBusiness == <<"b","u","s","i","n","e","s","s">>
sIndividual == <<"i","n","d","i","v","i","d","u","a","l">>

\* a service of the request body carries city and zip (postalCode); line1, line2
\* and state are absent and read as ""
toSAAddress(svc) == [city |-> svc.city, zip |-> cleanZip(svc.zip)]

\* rule.secondaryDay ?? -1, rule.season?.startUTC ?? -1, rule.season?.endUTC ?? -1
compactOf(addr, rule) ==
  [c |-> addr.city, z |-> addr.zip, b |-> rule.baseDay,
   s |-> IF rule.secondaryDay = <<>> THEN -1 ELSE rule.secondaryDay[1],
   ss |-> IF rule.season = <<>> THEN -1 ELSE rule.season[1].startUTC,
   se |-> IF rule.season = <<>> THEN -1 ELSE rule.season[1].endUTC]

\* variant that drops an unresolved service and reports no failure
buildAddrRulesCompact_dropping(services) ==
  [compact |->
     Flatten([i \in 1..Len(services) |->
                IF resolveRuleForAddress(toSAAddress(services[i]), AREA_RULES) = <<>>
                THEN <<>>
                ELSE <<compactOf(toSAAddress(services[i]),
                                 resolveRuleForAddress(toSAAddress(services[i]), AREA_RULES)[1])>>]),
   failures |-> <<>>]

\* {compact, failures}: failures are the 0-based indices of the unresolved services
buildAddrRulesCompact(services) ==
  LET res(i) == resolveRuleForAddress(toSAAddress(services[i]), AREA_RULES)
  IN  [compact |->
         Flatten([i \in 1..Len(services) |->
                    IF res(i) = <<>> THEN <<>>
                    ELSE <<compactOf(toSAAddress(services[i]), res(i)[1])>>]),
       failures |->
         Flatten([i \in 1..Len(services) |->
                    IF res(i) = <<>> THEN <<i - 1>> ELSE <<>>])]

miniText(svc) ==
  <<"{","\"","c","\"",":">> \o strText(svc.city)
  \o <<",","\"","z","\"",":">> \o strText(cleanZip(svc.zip)) \o <<"}">>

boolText(b) == IF b THEN <<"t","r","u","e">> ELSE <<"f","a","l","s","e">>

\* one element of fullAddresses
fullAddressText(svc, idx, sel) ==
  <<"{","\"","i","n","d","e","x","\"",":">> \o digitsOf(idx)
  \o <<",","\"","l","i","n","e","1","\"",":","\"","\"",",","\"","l","i","n","e","2","\"",":","\"","\"",",","\"","c","i","t","y","\"",":">> \o strText(svc.city)
  \o <<",","\"","s","t","a","t","e","\"",":","\"","\"",",","\"","p","o","s","t","a","l","_","c","o","d","e","\"",":">> \o strText(cleanZip(svc.zip))
  \o <<",","\"","s","e","a","s","o","n","a","l","_","s","e","l","e","c","t","e","d","\"",":">> \o boolText(sel) \o <<"}">>

RECURSIVE joinTexts(_)
\* the elements of a JSON array, separated by commas
joinTexts(ts) ==
  IF ts = <<>> THEN <<>>
  ELSE IF Len(ts) = 1 THEN ts[1]
  ELSE ts[1] \o <<",">> \o joinTexts(Tail(ts))

stringifyArray(ts) == <<"[">> \o joinTexts(ts) \o <<"]">>

\* selections[idx]?.seasonal_2nd ?? false; a selection is "on", "off" or "null"
optedIn(selections) == [i \in 1..Len(selections) |-> selections[i] = "on"]

accountText(account) == IF account = "business" THEN sBusiness ELSE sIndividual

\* metadata given to subscriptions.create: rule chunks, mini chunks, account tag
signupMetadata(services, account) ==
  chunkForMetadata(sAddrMini,
     stringifyArray([i \in 1..Len(services) |-> miniText(services[i])]), PerFieldMax)
  @@ encodeAddrRules(buildAddrRulesCompact(services).compact)
  @@ [k \in {sSignupAccountType} |-> accountText(account)]

\* metadata given to customers.update
customerMetadata(services, selections) ==
  chunkForMetadata(sServiceAddresses,
     stringifyArray([i \in 1..Len(services) |->
        fullAddressText(services[i], i - 1, selected(optedIn(selections), i))]),
     PerFieldMax)
  @@ [k \in {sServiceAddressCount} |-> digitsOf(Len(services))]

response(status, error, failures) == [status |-> status, error |-> error, failures |-> failures]

\* variant without the check on the number of services
postEarlyResponse_noServiceCheck(req) ==
  IF ~req.email THEN <<response(400, "Missing email", <<>>)>>
  ELSE IF Len(req.selections) # Len(req.services)
  THEN <<response(400, "Selections must match service addresses", <<>>)>>
  ELSE IF \E i \in 1..Len(req.selections) : req.selections[i] = "null"
  THEN <<response(400, "Invalid selection object(s)", <<>>)>>
  ELSE IF buildAddrRulesCompact(req.services).failures # <<>>
  THEN <<response(400, "Some addresses are outside our service areas",
                  <<buildAddrRulesCompact(req.services).failures>>)>>
  ELSE <<>>

\* the validations before any provider call: <<>> or the 400 answer
postEarlyResponse(req) ==
  IF ~req.email THEN <<response(400, "Missing email", <<>>)>>
  ELSE IF Len(req.services) < 1
  THEN <<response(400, "At least one service address is required", <<>>)>>
  ELSE IF Len(req.selections) # Len(req.services)
  THEN <<response(400, "Selections must match service addresses", <<>>)>>
  ELSE IF \E i \in 1..Len(req.selections) : req.selections[i] = "null"
  THEN <<response(400, "Invalid selection object(s)", <<>>)>>
  ELSE IF buildAddrRulesCompact(req.services).failures # <<>>
  THEN <<response(400, "Some addresses are outside our service areas",
                  <<buildAddrRulesCompact(req.services).failures>>)>>
  ELSE <<>>

\* the provider calls of a request that passed the validations, in order
PostCallOrder(existing) ==
  <<"customers.list">> \o (IF existing THEN <<>> ELSE <<"customers.create">>)
  \o <<"customers.update", "subscriptions.create", "subscriptions.update">>

\* calls made when the call failAt throws (all of them when none does)
RECURSIVE callsUpTo(_, _)
callsUpTo(order, failAt) ==
  IF order = <<>> THEN <<>>
  ELSE IF Head(order) = failAt THEN <<Head(order)>>
  ELSE <<Head(order)>> \o callsUpTo(Tail(order), failAt)

\* the subscription subscriptions.create makes for the initial phase
createdSubscription(req, built, now, account) ==
  [created |-> now,
   items |-> built.phases[1].items,
   billing_cycle_anchor |-> built.nextFirst,
   metadata |-> signupMetadata(req.services, account),
   schedule |-> <<>>]

sCustomerId == <<"c","u","s","_","1">>

numberText(n) == IF n < 0 THEN <<"-">> \o digitsOf(-n) ELSE digitsOf(n)

\* `end:${first.end_date}` or "unknown" (buildSignupPhases sets no duration)
firstPhaseSig(phases) ==
  IF phases # <<>> /\ phases[1].end_date # <<>>
  THEN <<"e","n","d",":">> \o numberText(phases[1].end_date[1])
  ELSE <<"u","n","k","n","o","w","n">>

\* quantities of the last phase's items joined by ","
lastItemsSig(phases) ==
  IF phases = <<>> THEN <<>>
  ELSE joinTexts([i \in 1..Len(phases[Len(phases)].items) |->
                    numberText(phases[Len(phases)].items[i].quantity)])

baseRaw(built, account) ==
  <<"s","c","h","e","d",":">> \o sCustomerId \o <<":">> \o numberText(built.baseQty) \o <<":">>
  \o numberText(Len(built.phases)) \o <<":">> \o firstPhaseSig(built.phases) \o <<":">>
  \o lastItemsSig(built.phases) \o <<":">> \o accountText(account)

\* the digest is kept as its preimage: equal keys exactly for equal inputs
subCreateIdem(built, account) == baseRaw(built, account) \o <<"|","s","u","b",".","c","r","e","a","t","e",":","v","1">>

schedCreateIdem(built, account) == baseRaw(built, account) \o <<"|","s","c","h","e","d",".","c","r","e","a","t","e",":","v","1">>

\* metadata of the closing subscriptions.update
signupMetadataFinal(services, account, built) ==
  [k \in {sScheduleIdem} |-> schedCreateIdem(built, account)]
  @@ [k \in {sSchedulePhaseCount} |-> numberText(Len(built.phases) - 1)]
  @@ signupMetadata(services, account)

\* provider metadata update: given keys replace, other keys stay
mergeMetadata(old, given) == given @@ old

\* POST after the validations: the answer, the provider calls made, and what the
\* provider then holds
postProvider(req, account, now, existing, outcome, built) ==
  IF built.phases = <<>> \/ built.phases[1].items = <<>>
  THEN [resp |-> response(400, "No billable items", <<>>), calls |-> <<>>,
        sub |-> <<>>, customerMeta |-> <<>>]
  ELSE LET order == PostCallOrder(existing)
           threw == outcome \in Range(order)
           calls == IF outcome \in {"zeroDue", "noSecret"}
                    THEN SubSeq(order, 1, Len(order) - 1)
                    ELSE callsUpTo(order, outcome)
           done(call) == call \in Range(calls) /\ outcome # call
           created == createdSubscription(req, built, now, account)
       IN  [resp |->
              IF threw THEN response(500, "provider error", <<>>)
              ELSE IF outcome = "noSecret"
              THEN response(400, "Failed to create payment intent", <<>>)
              ELSE response(200, "", <<>>),
            calls |-> calls,
            sub |->
              IF ~done("subscriptions.create") THEN <<>>
              ELSE IF done("subscriptions.update")
              THEN <<[created EXCEPT !.metadata =
                        mergeMetadata(@, signupMetadataFinal(req.services, account, built))]>>
              ELSE <<created>>,
            customerMeta |->
              IF done("customers.update")
              THEN customerMetadata(req.services, req.selections)
              ELSE <<>>]

postAfterValidation(req, account, now, existing, outcome) ==
  Only({ postProvider(req, account, now, existing, outcome, built) :
         built \in { buildSignupPhases(req.services, optedIn(req.selections), now) } })

(* ------------------------------------------------------------------ *)
(* Schedule reconciler: scheduleAttach.ts and src/unnamed/part_005     *)
(* ------------------------------------------------------------------ *)

sScheduleAttached == <<"s","c","h","e","d","u","l","e","_","a","t","t","a","c","h","e","d">>
sScheduleStatus == <<"s","c","h","e","d","u","l","e","_","s","t","a","t","u","s">>
sScheduleId == <<"s","c","h","e","d","u","l","e","_","i","d">>
sOne == <<"1">>
sAttached == <<"a","t","t","a","c","h","e","d">>

scheduleIdText(id) == <<"s","u","b","_","s","c","h","e","d","_">> \o digitsOf(id)

\* sub.metadata?.schedule_attached === "1"
hasAttachedFlag(meta) == sScheduleAttached \in DOMAIN meta /\ meta[sScheduleAttached] = sOne

\* the phase subscriptionSchedules.create({from_subscription}) copies from the
\* subscription: current period [created, billing_cycle_anchor) with its items
copiedPhase(sub) ==
  [start_date |-> <<sub.created>>, end_date |-> <<sub.billing_cycle_anchor>>,
   items |-> sub.items]

\* quantity of the first preserved item at the base price, else 1
preservedBaseQty(preserved) ==
  IF \E i \in 1..Len(preserved.items) : preserved.items[i].price = "base"
  THEN preserved.items[SetMin({ i \in 1..Len(preserved.items) :
                                  preserved.items[i].price = "base" })].quantity
  ELSE 1

\* --- JSON.parse of customer.metadata.service_addresses ---

parseAddress(text, pos) ==
  LET fail == [ok |-> FALSE, val |-> FALSE, next |-> pos]
      kIndex  == <<"{","\"","i","n","d","e","x","\"",":">>
      kLine1  == <<",","\"","l","i","n","e","1","\"",":">>
      kLine2  == <<",","\"","l","i","n","e","2","\"",":">>
      kCity   == <<",","\"","c","i","t","y","\"",":">>
      kState  == <<",","\"","s","t","a","t","e","\"",":">>
      kPostal == <<",","\"","p","o","s","t","a","l","_","c","o","d","e","\"",":">>
      kSel    == <<",","\"","s","e","a","s","o","n","a","l","_","s","e","l","e","c","t","e","d","\"",":">>
  IN  IF ~litAt(text, pos, kIndex) THEN fail ELSE
      LET n == parseNumber(text, pos + Len(kIndex)) IN
      IF ~n.ok \/ ~litAt(text, n.next, kLine1) THEN fail ELSE
      LET l1 == parseString(text, n.next + Len(kLine1)) IN
      IF ~l1.ok \/ ~litAt(text, l1.next, kLine2) THEN fail ELSE
      LET l2 == parseString(text, l1.next + Len(kLine2)) IN
      IF ~l2.ok \/ ~litAt(text, l2.next, kCity) THEN fail ELSE
      LET c == parseString(text, l2.next + Len(kCity)) IN
      IF ~c.ok \/ ~litAt(text, c.next, kState) THEN fail ELSE
      LET st == parseString(text, c.next + Len(kState)) IN
      IF ~st.ok \/ ~litAt(text, st.next, kPostal) THEN fail ELSE
      LET z == parseString(text, st.next + Len(kPostal)) IN
      IF ~z.ok \/ ~litAt(text, z.next, kSel) THEN fail ELSE
      LET b == z.next + Len(kSel) IN
      IF litAt(text, b, <<"t","r","u","e","}">>) THEN [ok |-> TRUE, val |-> TRUE, next |-> b + 5]
      ELSE IF litAt(text, b, <<"f","a","l","s","e","}">>) THEN [ok |-> TRUE, val |-> FALSE, next |-> b + 6]
      ELSE fail

RECURSIVE parseAddresses(_, _, _)
\* after "[" or ",": one address, then "," and more, or "]" as the last character
parseAddresses(text, pos, acc) ==
  LET r == parseAddress(text, pos)
  IN  IF ~r.ok THEN [ok |-> FALSE, val |-> <<>>]
      ELSE IF litAt(text, r.next, <<"]">>) /\ r.next = Len(text)
      THEN [ok |-> TRUE, val |-> Append(acc, r.val)]
      ELSE IF litAt(text, r.next, <<",">>)
      THEN parseAddresses(text, r.next + 1, Append(acc, r.val))
      ELSE [ok |-> FALSE, val |-> <<>>]

\* [ok, val]: val lists seasonal_selected of each address
parseAddressArray(text) ==
  IF text = <<"[","]">> THEN [ok |-> TRUE, val |-> <<>>]
  ELSE IF litAt(text, 1, <<"[">>) THEN parseAddresses(text, 2, <<>>)
  ELSE [ok |-> FALSE, val |-> <<>>]

\* metadata.service_addresses || metadata.service_addresses_1 || "[]"
serviceAddressesJson(meta) ==
  IF sServiceAddresses \in DOMAIN meta /\ meta[sServiceAddresses] # <<>>
  THEN meta[sServiceAddresses]
  ELSE IF chunkKey(sServiceAddresses, 1) \in DOMAIN meta
          /\ meta[chunkKey(sServiceAddresses, 1)] # <<>>
  THEN meta[chunkKey(sServiceAddresses, 1)]
  ELSE <<"[","]">>

\* scheduleAttach.ts: some address has seasonal_selected === true; a text that
\* does not parse throws inside the try and leaves false
customerSelectedSeasonal(meta) ==
  LET parsed == parseAddressArray(serviceAddressesJson(meta))
  IN  parsed.ok /\ \E i \in 1..Len(parsed.val) : parsed.val[i]

\* part_005: some decoded rule has s !== -1
rulesSelectedSeasonal(addrRules) == \E i \in 1..Len(addrRules) : addrRules[i].s # -1

RECURSIVE monthEdgesFrom(_, _)
\* part_005: cursor = minStart; while (cursor < endLimit) push, step to next month
monthEdgesFrom(cursor, endLimit) ==
  IF cursor < endLimit
  THEN <<cursor>> \o monthEdgesFrom(nextMonthFirstEpoch(cursor), endLimit)
  ELSE <<>>

\* part_005: the slices of the windows (windows non-empty)
attachSlices(windows) ==
  LET rawEdges   == { windows[i].start : i \in 1..Len(windows) }
                      \cup { windows[i].end : i \in 1..Len(windows) }
      minStart   == SetMin({ windows[i].start : i \in 1..Len(windows) })
      maxEnd     == SetMax({ windows[i].end : i \in 1..Len(windows) })
      boundaries == SortAsc(rawEdges \cup Range(monthEdgesFrom(minStart, maxEnd)))
      slice(i)   == [start |-> boundaries[i], end |-> boundaries[i + 1],
                     qty |-> Cardinality({ k \in 1..Len(windows) :
                                             /\ windows[k].start <= boundaries[i]
                                             /\ windows[k].end >= boundaries[i + 1] })]
  IN  FilterSeq([i \in 1..(Len(boundaries) - 1) |-> slice(i)],
                [i \in 1..(Len(boundaries) - 1) |-> boundaries[i] < boundaries[i + 1]])

\* part_005: slices that end after the current phase start
attachSegments(addrRules, currentStart) ==
  LET windows == IF rulesSelectedSeasonal(addrRules) THEN seasonalWindows(addrRules) ELSE <<>>
      slices  == IF windows = <<>> THEN <<>> ELSE attachSlices(windows)
  IN  FilterSeq(slices, [i \in 1..Len(slices) |-> slices[i].end > currentStart])

RECURSIVE consolidateInto(_, _)
\* part_005: merge a segment into the last one when qty is equal and they touch
consolidateInto(acc, segments) ==
  IF segments = <<>> THEN acc
  ELSE LET seg == Head(segments)
       IN  IF acc # <<>> /\ acc[Len(acc)].qty = seg.qty /\ acc[Len(acc)].end = seg.start
           THEN consolidateInto([acc EXCEPT ![Len(acc)].end = seg.end], Tail(segments))
           ELSE consolidateInto(Append(acc, seg), Tail(segments))

consolidatedSegments(segments) == consolidateInto(<<>>, segments)

\* a schedule phase is [start_date, end_date, items]; both dates are optional
segmentPhase(seg, idx, preserved, baseQty) ==
  [start_date |-> IF idx = 1 THEN preserved.start_date ELSE <<>>,
   end_date |-> <<seg.end>>,
   items |-> IF seg.qty > 0 THEN <<baseItem(baseQty), seasonalItem(seg.qty)>>
             ELSE <<baseItem(baseQty)>>]

\* bounded phases of the mapped segments, then the open-ended base-only phase,
\* which carries start_date when no segment was found
phaseUpdates(mapped, segments, preserved) ==
  [i \in 1..Len(mapped) |->
     segmentPhase(mapped[i], i, preserved, preservedBaseQty(preserved))]
  \o <<[start_date |-> IF segments = <<>> THEN preserved.start_date ELSE <<>>,
        end_date |-> <<>>,
        items |-> <<baseItem(preservedBaseQty(preserved))>>]>>

\* part_005 lines 124-249
rebuildPhases_part005(addrRules, preserved) ==
  Only({ phaseUpdates(consolidatedSegments(segments), segments, preserved) :
         segments \in { attachSegments(addrRules, preserved.start_date[1]) } })

\* scheduleAttach.ts lines 100-170
rebuildPhases_scheduleAttach(addrRules, preserved, userSelectedSeasonal) ==
  Only({ phaseUpdates(segments, segments, preserved) :
         segments \in { IF userSelectedSeasonal
                        THEN buildSeasonalTimeline(addrRules, preserved.start_date[1])
                        ELSE <<>> } })

\* {...sub.metadata, schedule_attached: "1", schedule_id} (part_005 lines 34-38)
existingMarkMetadata(meta, scheduleId) ==
  [k \in {sScheduleAttached} |-> sOne]
  @@ [k \in {sScheduleId} |-> scheduleIdText(scheduleId)]
  @@ meta

\* variant that leaves the flag out of the closing metadata write
attachedMetadata_noFlag(meta, scheduleId) ==
  [k \in {sScheduleStatus} |-> sAttached]
  @@ [k \in {sScheduleId} |-> scheduleIdText(scheduleId)]
  @@ meta

\* {...sub.metadata, schedule_attached: "1", schedule_status: "attached", schedule_id}
attachedMetadata(meta, scheduleId) ==
  [k \in {sScheduleAttached} |-> sOne]
  @@ [k \in {sScheduleStatus} |-> sAttached]
  @@ [k \in {sScheduleId} |-> scheduleIdText(scheduleId)]
  @@ meta

(* ------------------------------------------------------------------ *)
(* State                                                               *)
(* ------------------------------------------------------------------ *)

VARIABLES
  tlRules, tlServices, tlSelections, tlRef, tlSlices, tlPhases, tlPc,  \* timeline builder run
  suServices, suSelections, suNow, suOut, suPc,               \* buildSignupPhases run
  cdRules, cdMeta, cdDecoded, cdPc,                           \* codec round trip
  rsAddr, rsRules, rsOut, rsPc,                               \* resolver run
  poReq, poAccount, poResp, poCalls, poSub, poCustomerMeta, poPc,  \* signup POST
  rcVariant, rcSignup, rcSub, rcCustomerMeta, rcSchedules,    \* provider state
  rcPc, rcLocal, rcFailures,                                  \* reconciler invocations
  whSecret, whSeen, whLast, whCount,                          \* webhook endpoint
  mhMinStart, mhMaxEnd, mhCur, mhResult, mhCount, mhPc,       \* monthStartsBetween run
  srIds, srData, srLoading, srError, srPollAttempts,          \* SubscriptionResults
  srLastPhaseCount, srClosure, srFetches, srPc

tlVars == <<tlRules, tlServices, tlSelections, tlRef, tlSlices, tlPhases, tlPc>>

suVars == <<suServices, suSelections, suNow, suOut, suPc>>

cdVars == <<cdRules, cdMeta, cdDecoded, cdPc>>

rsVars == <<rsAddr, rsRules, rsOut, rsPc>>

poVars == <<poReq, poAccount, poResp, poCalls, poSub, poCustomerMeta, poPc>>

rcVars == <<rcVariant, rcSignup, rcSub, rcCustomerMeta, rcSchedules, rcPc, rcLocal, rcFailures>>

whVars == <<whSecret, whSeen, whLast, whCount>>

mhVars == <<mhMinStart, mhMaxEnd, mhCur, mhResult, mhCount, mhPc>>
srVars == <<srIds, srData, srLoading, srError, srPollAttempts, srLastPhaseCount, srClosure,
           srFetches, srPc>>

vars == <<tlVars, suVars, cdVars, rsVars, poVars, rcVars, whVars, mhVars, srVars>>

mhIdle ==
  /\ mhMinStart = 0 /\ mhMaxEnd = 0 /\ mhCur = 0 /\ mhResult = <<>> /\ mhCount = 0
  /\ mhPc = "off"

srIdle ==
  /\ srIds = [subscriptionId |-> FALSE, customerId |-> FALSE]
  /\ srData = <<>> /\ srLoading = FALSE /\ srError = FALSE
  /\ srPollAttempts = 0 /\ srLastPhaseCount = 0 /\ srClosure = <<>>
  /\ srFetches = 0 /\ srPc = "off"

whIdle == whSecret = <<>> /\ whSeen = {} /\ whLast = <<>> /\ whCount = 0

tlIdle ==
  /\ tlRules = <<>> /\ tlServices = <<>> /\ tlSelections = <<>>
  /\ tlRef = 0 /\ tlSlices = <<>> /\ tlPhases = <<>> /\ tlPc = "off"

suIdle ==
  /\ suServices = <<>> /\ suSelections = <<>> /\ suNow = 0
  /\ suOut = <<>> /\ suPc = "off"

cdIdle == cdRules = <<>> /\ cdMeta = <<>> /\ cdDecoded = <<>> /\ cdPc = "off"

rsIdle == rsAddr = <<>> /\ rsRules = <<>> /\ rsOut = <<>> /\ rsPc = "off"

poIdle ==
  /\ poReq = <<>> /\ poAccount = "off" /\ poResp = <<>> /\ poCalls = <<>>
  /\ poSub = <<>> /\ poCustomerMeta = <<>> /\ poPc = "off"

rcIdle ==
  /\ rcVariant = "off" /\ rcSignup = <<>> /\ rcSub = <<>> /\ rcCustomerMeta = <<>>
  /\ rcSchedules = <<>> /\ rcPc = <<>> /\ rcLocal = <<>> /\ rcFailures = 0

(* ------------------------------------------------------------------ *)
(* Inputs                                                              *)
(* ------------------------------------------------------------------ *)

z28445 == <<"2","8","4","4","5">>
z28401 == <<"2","8","4","0","1">>
z27601 == <<"2","7","6","0","1">>

addrSurfCity == [city |-> sSurfCity, zip |-> z28445]
addrTopsail == [city |-> sTopsailBeach, zip |-> z28445]
addrNorthTopsail == [city |-> sNorthTopsailBeach, zip |-> z28445]
addrWilmington == [city |-> sWilmington, zip |-> z28401]
addrRaleigh == [city |-> <<"R","a","l","e","i","g","h">>, zip |-> z27601]

\* service addresses offered to the signup paths
ServiceSet == {addrSurfCity, addrTopsail, addrNorthTopsail, addrWilmington}

MaxServices == 2

\* reference times: Dec 20 2024, Jan 10, Apr 15, May 1, Jul 15, Oct 1, Nov 5 2025
NowSet == {DateUTC(Y2025 - 1, 11, 20), DateUTC(Y2025, 0, 10), DateUTC(Y2025, 3, 15),
           DateUTC(Y2025, 4, 1), DateUTC(Y2025, 6, 15), DateUTC(Y2025, 9, 1),
           DateUTC(Y2025, 10, 5)}

compactRule(s, ss, se) == [c |-> sSurfCity, z |-> z28445, b |-> Tue, s |-> s, ss |-> ss, se |-> se]

\* compact rules offered to buildSeasonalTimeline: overlapping, nested, disjoint,
\* mid-month, not seasonal (s = -1) and invalid (ss = -1, se <= ss) windows
TlRuleSet ==
  { compactRule(Fri, DateUTC(Y2025, 4, 1), DateUTC(Y2025, 8, 30)),
    compactRule(Thu, DateUTC(Y2025, 4, 26), DateUTC(Y2025, 8, 1)),
    compactRule(Fri, DateUTC(Y2025, 4, 1), DateUTC(Y2025, 6, 1)),
    compactRule(Fri, DateUTC(Y2025, 5, 1), DateUTC(Y2025, 8, 1)),
    compactRule(Sat, DateUTC(Y2025, 10, 10), DateUTC(Y2025 + 1, 0, 20)),
    compactRule(-1, DateUTC(Y2025, 4, 1), DateUTC(Y2025, 8, 30)),
    compactRule(Fri, -1, -1),
    compactRule(Fri, DateUTC(Y2025, 6, 1), DateUTC(Y2025, 6, 1)) }

MaxTlRules == 3

(* ------------------------------------------------------------------ *)
(* Timeline builder run (SpecTimeline)                                 *)
(* ------------------------------------------------------------------ *)

InitTimeline ==
  /\ tlPc = "input"
  /\ tlSlices = <<>> /\ tlPhases = <<>>
  /\ \/ /\ tlRules \in SeqsUpTo(TlRuleSet, MaxTlRules)
        /\ tlServices = <<>> /\ tlSelections = <<>> /\ tlRef = 0
     \/ /\ tlRules = <<>>
        /\ tlServices \in SeqsUpTo(ServiceSet, MaxServices)
        /\ tlSelections \in [1..Len(tlServices) -> BOOLEAN]
        /\ tlRef \in NowSet
  /\ suIdle /\ cdIdle /\ rsIdle /\ poIdle /\ rcIdle /\ whIdle /\ mhIdle /\ srIdle

RunBuildTimeline ==
  /\ tlPc = "input" /\ tlServices # <<>>
  /\ tlSlices' = buildTimeline(tlServices, tlSelections, tlRef)
  /\ tlPc' = "signup"
  /\ UNCHANGED <<tlRules, tlServices, tlSelections, tlRef, tlPhases, suVars, cdVars, rsVars, poVars, rcVars, whVars, mhVars, srVars>>

RunSeasonalSlices ==
  /\ tlPc = "input" /\ tlRules # <<>>
  /\ tlSlices' = [i \in 1..Len(seasonalSlices(tlRules)) |->
                    [start |-> seasonalSlices(tlRules)[i].start,
                     end |-> seasonalSlices(tlRules)[i].end,
                     seasonalActiveCount |-> seasonalSlices(tlRules)[i].qty]]
  /\ tlPc' = "seasonal"
  /\ UNCHANGED <<tlRules, tlServices, tlSelections, tlRef, tlPhases, suVars, cdVars, rsVars, poVars, rcVars, whVars, mhVars, srVars>>

\* timelineToPhases on the slices buildTimeline returned
RunTimelineToPhases ==
  /\ tlPc = "signup"
  /\ tlPhases' = timelineToPhases(tlSlices, Len(tlServices))
  /\ tlPc' = "phases"
  /\ UNCHANGED <<tlRules, tlServices, tlSelections, tlRef, tlSlices, suVars, cdVars, rsVars, poVars, rcVars, whVars, mhVars, srVars>>

NextTimeline == RunBuildTimeline \/ RunSeasonalSlices \/ RunTimelineToPhases

SpecTimeline == InitTimeline /\ [][NextTimeline]_vars

\* the windows the finished run sliced
tlWindows ==
  IF tlPc = "signup" THEN signupWindows(tlServices, tlSelections, tlRef)
  ELSE seasonalWindows(tlRules)

\* C1: for a non-empty set of windows (end > start > 0) the slices are ascending,
\* non-empty, contiguous, tile [min start, max end) and carry the number of windows
\* that contain them.
TimelineTiles ==
  (tlPc \in {"signup", "seasonal"} /\ tlWindows # <<>>) =>
    LET w == tlWindows
        n == Len(tlSlices)
    IN  /\ n >= 1
        /\ \A i \in 1..n : tlSlices[i].start < tlSlices[i].end
        /\ \A i \in 1..(n - 1) : tlSlices[i].end = tlSlices[i + 1].start
        /\ tlSlices[1].start = SetMin({ w[k].start : k \in 1..Len(w) })
        /\ tlSlices[n].end = SetMax({ w[k].end : k \in 1..Len(w) })
        /\ \A i \in 1..n :
             tlSlices[i].seasonalActiveCount =
               Cardinality({ k \in 1..Len(w) :
                  w[k].start <= tlSlices[i].start /\ w[k].end >= tlSlices[i].end })

\* windows overlap (count 2 somewhere) and leave a gap (count 0 somewhere)
TimelineTilesWitness ==
  /\ tlPc = "seasonal"
  /\ Len(tlWindows) >= 2
  /\ \E i \in 1..Len(tlSlices) : tlSlices[i].seasonalActiveCount = 2
  /\ \E i \in 1..Len(tlSlices) : tlSlices[i].seasonalActiveCount = 0

(* ------------------------------------------------------------------ *)
(* buildSignupPhases run (SpecSignup)                                  *)
(* ------------------------------------------------------------------ *)

InitSignup ==
  /\ suPc = "input"
  /\ suOut = <<>>
  /\ suServices \in SeqsUpTo(ServiceSet, MaxServices)
  /\ suSelections \in [1..Len(suServices) -> BOOLEAN]
  /\ suNow \in NowSet
  /\ tlIdle /\ cdIdle /\ rsIdle /\ poIdle /\ rcIdle /\ whIdle /\ mhIdle /\ srIdle

RunBuildSignupPhases ==
  /\ suPc = "input"
  /\ suOut' = <<buildSignupPhases(suServices, suSelections, suNow)>>
  /\ suPc' = "done"
  /\ UNCHANGED <<suServices, suSelections, suNow, tlVars, cdVars, rsVars, poVars, rcVars, whVars, mhVars, srVars>>

NextSignup == RunBuildSignupPhases

SpecSignup == InitSignup /\ [][NextSignup]_vars

suPhases == suOut[1].phases

\* C2: the phase list is non-empty, its last phase is open-ended with exactly the
\* base item at quantity = number of services, and every other phase is bounded.
SignupTailOpenEnded ==
  suPc = "done" =>
    LET n == Len(suPhases)
    IN  /\ n >= 1
        /\ isOpenEnded(suPhases[n])
        /\ suPhases[n].items = <<baseItem(Len(suServices))>>
        /\ \A i \in 1..(n - 1) : ~isOpenEnded(suPhases[i])

SignupTailOpenEndedWitness ==
  /\ suPc = "done"
  /\ Len(suPhases) >= 4
  /\ \E i \in 1..Len(suPhases) : Len(suPhases[i].items) = 2

\* C3: the bounded phases are the stub [nowEpoch, anchor) once, then one phase per
\* emitted slice [slice.start, slice.end); each interval is non-empty and begins
\* where the previous one ends, the open-ended tail following the last.
SignupPhasesContiguous ==
  suPc = "done" =>
    LET sl  == emittedSlices(buildTimeline(suServices, suSelections, suNow), suOut[1].nextFirst)
        iv  == <<[start |-> suNow, end |-> suOut[1].nextFirst]>>
               \o [i \in 1..Len(sl) |-> [start |-> sl[i].start, end |-> sl[i].end]]
        n   == Len(suPhases)
    IN  /\ n = Len(iv) + 1
        /\ \A i \in 1..Len(iv) :
             /\ suPhases[i].end_date = <<iv[i].end>>
             /\ iv[i].start < iv[i].end
             /\ i > 1 => iv[i].start = iv[i - 1].end

(* ------------------------------------------------------------------ *)
(* Codec round trip (SpecCodec)                                        *)
(* ------------------------------------------------------------------ *)

\* buildAddrRulesCompact output for a seasonal and a non-seasonal address
CodecRuleSet ==
  { [c |-> sNorthTopsailBeach, z |-> z28445, b |-> Wed, s |-> Sat,
     ss |-> DateUTC(Y2025, 4, 2), se |-> DateUTC(Y2025, 9, 26)],
    [c |-> sWilmington, z |-> z28401, b |-> Tue, s |-> -1, ss |-> -1, se |-> -1] }

MaxCodecRules == 8

InitCodec ==
  /\ cdRules = <<>> /\ cdMeta = <<>> /\ cdDecoded = <<>> /\ cdPc = "input"
  /\ tlIdle /\ suIdle /\ rsIdle /\ poIdle /\ rcIdle /\ whIdle /\ mhIdle /\ srIdle

CdAddRule ==
  /\ cdPc = "input" /\ Len(cdRules) < MaxCodecRules
  /\ \E r \in CodecRuleSet : cdRules' = Append(cdRules, r)
  /\ UNCHANGED <<cdMeta, cdDecoded, cdPc, tlVars, suVars, rsVars, poVars, rcVars, whVars, mhVars, srVars>>

CdEncode ==
  /\ cdPc = "input"
  /\ cdMeta' = encodeAddrRules(cdRules)
  /\ cdPc' = "encoded"
  /\ UNCHANGED <<cdRules, cdDecoded, tlVars, suVars, rsVars, poVars, rcVars, whVars, mhVars, srVars>>

CdDecode ==
  /\ cdPc = "encoded"
  /\ cdDecoded' = readAddrRulesFromMeta(cdMeta)
  /\ cdPc' = "decoded"
  /\ UNCHANGED <<cdRules, cdMeta, tlVars, suVars, rsVars, poVars, rcVars, whVars, mhVars, srVars>>

NextCodec == CdAddRule \/ CdEncode \/ CdDecode

SpecCodec == InitCodec /\ [][NextCodec]_vars

\* --- decoding stored metadata (SpecRead) ---

ruleNorthTopsail ==
  [c |-> sNorthTopsailBeach, z |-> z28445, b |-> Wed, s |-> Sat,
   ss |-> DateUTC(Y2025, 4, 2), se |-> DateUTC(Y2025, 9, 26)]

ruleWilmington == [c |-> sWilmington, z |-> z28401, b |-> Tue, s |-> -1, ss |-> -1, se |-> -1]

\* one rule as JSON with b, s, ss and se written as strings
quotedRuleText(r) ==
  <<"{","\"","c","\"",":">> \o strText(r.c)
  \o <<",","\"","z","\"",":">> \o strText(r.z)
  \o <<",","\"","b","\"",":">> \o strText(numText(r.b))
  \o <<",","\"","s","\"",":">> \o strText(numText(r.s))
  \o <<",","\"","s","s","\"",":">> \o strText(numText(r.ss))
  \o <<",","\"","s","e","\"",":">> \o strText(numText(r.se))
  \o <<"}">>

\* values a chunk key may hold, each with the rules it stands for: a JSON array of
\* one rule, an array of two rules with string-typed numbers, an array cut in the
\* middle, and a JSON object
StoredChunks ==
  { [text |-> stringifyRules(<<ruleNorthTopsail>>), rules |-> <<ruleNorthTopsail>>],
    [text |-> <<"[">> \o quotedRuleText(ruleWilmington) \o <<",">>
                \o quotedRuleText(ruleNorthTopsail) \o <<"]">>,
     rules |-> <<ruleWilmington, ruleNorthTopsail>>],
    [text |-> SubSeq(stringifyRules(<<ruleWilmington, ruleNorthTopsail>>), 1, 40),
     rules |-> <<>>],
    [text |-> ruleText(ruleWilmington), rules |-> <<>>] }

\* chunk keys in the order of reading
StoredKeyOrder == <<sAddrRules, chunkKey(sAddrRules, 2), chunkKey(sAddrRules, 10)>>

\* keys the filter does not accept
ForeignKeys ==
  { sAddrMini, sAddrRules \o <<"_">>, sAddrRules \o <<"_","x">>,
    <<"x">> \o chunkKey(sAddrRules, 1) }

\* metadata with any of the chunk keys present, with or without the foreign keys
StoredMetaSet ==
  { [k \in { StoredKeyOrder[i] : i \in { j \in 1..3 : pick[j] # <<>> } }
         \cup (IF foreign THEN ForeignKeys ELSE {}) |->
       IF k \in ForeignKeys THEN stringifyRules(<<ruleWilmington>>)
       ELSE pick[CHOOSE j \in 1..3 : StoredKeyOrder[j] = k][1].text] :
    pick \in [1..3 -> {<<>>} \cup { <<c>> : c \in StoredChunks }], foreign \in BOOLEAN }

InitRead ==
  /\ cdRules = <<>> /\ cdMeta \in StoredMetaSet /\ cdDecoded = <<>> /\ cdPc = "stored"
  /\ tlIdle /\ suIdle /\ rsIdle /\ poIdle /\ rcIdle /\ whIdle /\ mhIdle /\ srIdle

CdRead ==
  /\ cdPc = "stored"
  /\ cdDecoded' = readAddrRulesFromMeta(cdMeta)
  /\ cdPc' = "read"
  /\ UNCHANGED <<cdRules, cdMeta, tlVars, suVars, rsVars, poVars, rcVars, whVars, mhVars, srVars>>

NextRead == CdRead

SpecRead == InitRead /\ [][NextRead]_vars

\* C4: decoding the encoded metadata returns the same rules in the same order,
\* also when the JSON text is longer than the per-field cap.
CodecRoundTrip == cdPc = "decoded" => cdDecoded = cdRules

(* ------------------------------------------------------------------ *)
(* Resolver run (SpecResolve)                                          *)
(* ------------------------------------------------------------------ *)

RsCitySet ==
  { sSurfCity,
    <<" ","s","U","R","F"," ","c","i","t","y"," ">>,
    sWilmington,
    <<"W","I","L","M","I","N","G","T","O","N">>,
    <<"R","a","l","e","i","g","h">>,
    <<"S","u","r","f">>,
    <<>> }

RsZipSet ==
  { z28401, z28445, z27601,
    <<" ","2","8","4","0","1"," ">>,
    <<"2","8","4","0","1","-","9","9">>,
    <<"2","8","4","4","2","8","4","0","1">>,
    <<"2","8">>,
    <<>> }

\* a table in which prefix rules come first, prefixes of equal length compete and
\* a city rule also carries a prefix
RsTestRules == <<
  [city |-> <<>>, zipPrefix |-> <<"2","8">>, baseDay |-> Mon, secondaryDay |-> <<>>,
   season |-> <<>>],
  [city |-> <<>>, zipPrefix |-> <<"2","8","4","0","1">>, baseDay |-> Wed,
   secondaryDay |-> <<>>, season |-> <<>>],
  [city |-> <<" ","S","U","R","F"," ","C","I","T","Y">>, zipPrefix |-> <<"2","7">>,
   baseDay |-> Thu, secondaryDay |-> <<Sat>>,
   season |-> <<[startUTC |-> DateUTC(Y2025, 5, 1), endUTC |-> DateUTC(Y2025, 7, 1)]>>],
  [city |-> sSurfCity, zipPrefix |-> <<>>, baseDay |-> Fri, secondaryDay |-> <<>>,
   season |-> <<>>],
  [city |-> <<>>, zipPrefix |-> <<"2","8","4">>, baseDay |-> Tue, secondaryDay |-> <<>>,
   season |-> <<>>],
  [city |-> <<>>, zipPrefix |-> <<"2","7","6">>, baseDay |-> Sat, secondaryDay |-> <<>>,
   season |-> <<>>] >>

RsTableSet == { AREA_RULES, RsTestRules, <<>> }

InitResolve ==
  /\ rsAddr \in { <<[city |-> c, zip |-> z]>> : c \in RsCitySet, z \in RsZipSet }
  /\ rsRules \in RsTableSet
  /\ rsOut = <<>> /\ rsPc = "input"
  /\ tlIdle /\ suIdle /\ cdIdle /\ poIdle /\ rcIdle /\ whIdle /\ mhIdle /\ srIdle

RunResolve ==
  /\ rsPc = "input"
  /\ rsOut' = resolveRuleForAddress(rsAddr[1], rsRules)
  /\ rsPc' = "done"
  /\ UNCHANGED <<rsAddr, rsRules, tlVars, suVars, cdVars, poVars, rcVars, whVars, mhVars, srVars>>

NextResolve == RunResolve

SpecResolve == InitResolve /\ [][NextResolve]_vars

\* the answer that reports rule r of the table
rsAnswer(r, how) ==
  <<[baseDay |-> r.baseDay, secondaryDay |-> r.secondaryDay, season |-> r.season,
     matchedBy |-> how]>>

rsCityMatches ==
  { i \in 1..Len(rsRules) :
      rsRules[i].city # <<>>
      /\ toLowerCase(trim(rsRules[i].city)) = toLowerCase(trim(rsAddr[1].city)) }

rsZipMatches ==
  { i \in 1..Len(rsRules) :
      rsRules[i].zipPrefix # <<>>
      /\ startsWith(sliceTo(trim(rsAddr[1].zip), 5), rsRules[i].zipPrefix) }

\* C9: a city match (trimmed, lower-cased) wins whatever prefixes match; otherwise
\* the longest zipPrefix that is a prefix of the zip trimmed and cut to 5 characters;
\* otherwise null.
ResolveCityThenLongestPrefix ==
  rsPc = "done" =>
    IF rsCityMatches # {}
    THEN rsOut = rsAnswer(rsRules[SetMin(rsCityMatches)], "city")
    ELSE IF rsZipMatches # {}
    THEN /\ \E i \in rsZipMatches :
              /\ \A j \in rsZipMatches :
                   Len(rsRules[j].zipPrefix) <= Len(rsRules[i].zipPrefix)
              /\ rsOut = rsAnswer(rsRules[i], "zipPrefix")
    ELSE rsOut = <<>>

\* a city match while a prefix rule matches too, and a longest-prefix match that is
\* not the first matching prefix rule exist; the witness is the latter
ResolveWitness ==
  /\ rsPc = "done"
  /\ rsCityMatches = {}
  /\ Cardinality(rsZipMatches) >= 2
  /\ rsOut # <<>>
  /\ rsOut # rsAnswer(rsRules[SetMin(rsZipMatches)], "zipPrefix")

(* ------------------------------------------------------------------ *)
(* Signup POST run (SpecPost)                                          *)
(* ------------------------------------------------------------------ *)

\* service addresses offered to POST: two resolvable ones and one outside all areas
PostServiceSet == {addrSurfCity, addrWilmington, addrRaleigh}

MaxPostServices == 2

PostNowSet == {DateUTC(Y2025, 3, 15), DateUTC(Y2025, 6, 15)}

\* how the provider answers: a call that throws, a zero first invoice, an invoice
\* without confirmation secret, or a payable invoice
PostOutcomes ==
  {"customers.list", "customers.create", "customers.update", "subscriptions.create",
   "subscriptions.update", "zeroDue", "noSecret", "ok"}

InitPost ==
  /\ poReq \in { <<[email |-> e, services |-> svcs, selections |-> sels]>> :
                   e \in BOOLEAN,
                   svcs \in SeqsUpTo(PostServiceSet, MaxPostServices),
                   sels \in SeqsUpTo({"on", "off", "null"}, MaxPostServices) }
  /\ poAccount \in {"business", "individual"}
  /\ poResp = <<>> /\ poCalls = <<>> /\ poSub = <<>> /\ poCustomerMeta = <<>>
  /\ poPc = "received"
  /\ tlIdle /\ suIdle /\ cdIdle /\ rsIdle /\ rcIdle /\ whIdle /\ mhIdle /\ srIdle

\* POST, from the request body to the answer
PostHandle ==
  /\ poPc = "received"
  /\ poPc' = "answered"
  /\ \/ /\ postEarlyResponse(poReq[1]) # <<>>
        /\ poResp' = postEarlyResponse(poReq[1])
        /\ poCalls' = <<>> /\ poSub' = <<>> /\ poCustomerMeta' = <<>>
     \/ /\ postEarlyResponse(poReq[1]) = <<>>
        /\ \E now \in PostNowSet, existing \in BOOLEAN, outcome \in PostOutcomes :
             \E out \in { postAfterValidation(poReq[1], poAccount, now, existing, outcome) } :
               /\ poResp' = <<out.resp>>
               /\ poCalls' = out.calls
               /\ poSub' = out.sub
               /\ poCustomerMeta' = out.customerMeta
  /\ UNCHANGED <<poReq, poAccount, tlVars, suVars, cdVars, rsVars, rcVars, whVars, mhVars, srVars>>

NextPost == PostHandle

SpecPost == InitPost /\ [][NextPost]_vars

\* 0-based input indices of the services that match no area rule
unresolvedIndices(services) ==
  { i - 1 : i \in { k \in 1..Len(services) :
                      resolveRuleForAddress(toSAAddress(services[k]), AREA_RULES) = <<>> } }

\* the request passes the validations that precede address resolution
passesEarlierChecks(req) ==
  /\ req.email
  /\ Len(req.services) >= 1
  /\ Len(req.selections) = Len(req.services)
  /\ \A i \in 1..Len(req.selections) : req.selections[i] # "null"

\* the answer is the 400 that lists exactly the unresolved indices, in input order,
\* and no provider call was made
rejectsWithFailures ==
  /\ poResp[1].status = 400
  /\ poResp[1].failures # <<>>
  /\ poResp[1].failures[1] = SortAsc(unresolvedIndices(poReq[1].services))
  /\ poCalls = <<>> /\ poSub = <<>> /\ poCustomerMeta = <<>>

\* C8 (as stated): whenever some service address of the request matches no area
\* rule, POST answers 400 with the failures list of exactly the unresolved input
\* indices and makes no customer or subscription call.
UnresolvedAlwaysListed ==
  (poPc = "answered" /\ unresolvedIndices(poReq[1].services) # {})
    => rejectsWithFailures

\* C8 (amended): the same, for requests that pass the validations POST runs before
\* it resolves the addresses (email present, at least one service, one valid
\* selection per service).
UnresolvedRejected ==
  (poPc = "answered" /\ passesEarlierChecks(poReq[1])
     /\ unresolvedIndices(poReq[1].services) # {})
    => rejectsWithFailures

\* a two-address request whose second address is outside all areas was answered
UnresolvedRejectedWitness ==
  /\ poPc = "answered"
  /\ passesEarlierChecks(poReq[1])
  /\ Len(poReq[1].services) = 2
  /\ unresolvedIndices(poReq[1].services) = {1}
  /\ poResp[1].failures = <<(<<1>>)>>

(* ------------------------------------------------------------------ *)
(* Reconciler invocations against the provider (Spec)                  *)
(* ------------------------------------------------------------------ *)

\* provider calls that may fail in one behaviour
MaxFailures == 1

\* notifications that each invoke ensureScheduleAttached once
Deliveries == {"invoice.paid", "customer.subscription.updated",
               "customer.subscription.updated (redelivered)"}

Variants == {"scheduleAttach.ts", "part_005"}

signupOf(services, selections, account, now, outcome) ==
  [req |-> [email |-> TRUE, services |-> services, selections |-> selections],
   account |-> account, now |-> now, outcome |-> outcome, stored |-> <<>>]

\* compact rules found on a subscription that was written under an area table with
\* six seasons (AREA_RULES is edited over time; the reconciler reads the stored
\* rules, never the table)
storedSixSeasons ==
  << [c |-> sSurfCity, z |-> z28445, b |-> Tue, s |-> Fri,
      ss |-> DateUTC(Y2025, 4, 1), se |-> DateUTC(Y2025, 8, 30)],
     [c |-> sNorthTopsailBeach, z |-> z28445, b |-> Wed, s |-> Sat,
      ss |-> DateUTC(Y2025, 4, 2), se |-> DateUTC(Y2025, 9, 26)],
     [c |-> sTopsailBeach, z |-> z28445, b |-> Mon, s |-> Thu,
      ss |-> DateUTC(Y2025, 4, 26), se |-> DateUTC(Y2025, 8, 1)],
     [c |-> sSurfCity, z |-> z28445, b |-> Tue, s |-> Fri,
      ss |-> DateUTC(Y2025, 5, 10), se |-> DateUTC(Y2025, 7, 20)],
     [c |-> sSurfCity, z |-> z28445, b |-> Tue, s |-> Fri,
      ss |-> DateUTC(Y2025, 5, 20), se |-> DateUTC(Y2025, 7, 10)],
     [c |-> sSurfCity, z |-> z28445, b |-> Tue, s |-> Fri,
      ss |-> DateUTC(Y2025, 6, 5), se |-> DateUTC(Y2025, 6, 25)] >>

\* the subscription as retrieved, carrying the stored rules in addr_rules
withStoredRules(sub, stored) ==
  IF stored = <<>> THEN sub
  ELSE [sub EXCEPT !.metadata = encodeAddrRules(stored[1]) @@ @]

\* signups whose subscription the reconciler meets: seasonal area opted in and
\* not opted in, an area without season, two addresses in season, eight
\* addresses (compact rules longer than one metadata field), the three seasonal
\* areas together, and a subscription whose stored rules hold six seasons
RcSignupSet ==
  { signupOf(<<addrSurfCity>>, <<"on">>, "individual", DateUTC(Y2025, 3, 15), "ok"),
    signupOf(<<addrSurfCity>>, <<"off">>, "business", DateUTC(Y2025, 3, 15), "ok"),
    signupOf(<<addrWilmington>>, <<"off">>, "individual", DateUTC(Y2025, 6, 15), "zeroDue"),
    signupOf(<<addrSurfCity, addrNorthTopsail>>, <<"on", "on">>, "business",
             DateUTC(Y2025, 6, 15), "ok"),
    signupOf([i \in 1..8 |-> addrNorthTopsail], [i \in 1..8 |-> "off"], "individual",
             DateUTC(Y2025, 3, 15), "ok"),
    signupOf(<<addrSurfCity, addrTopsail, addrNorthTopsail>>, <<"on", "on", "on">>,
             "individual", DateUTC(Y2025, 3, 15), "ok"),
    [signupOf([i \in 1..6 |-> addrSurfCity], [i \in 1..6 |-> "on"], "individual",
              DateUTC(Y2025, 3, 15), "ok") EXCEPT !.stored = <<storedSixSeasons>>] }

idleLocal ==
  [meta |-> <<>>, scheduleId |-> 0, preserved |-> <<>>, seasonal |-> FALSE,
   failed |-> FALSE, solo |-> TRUE]

inProgress(p) == rcPc[p] \notin {"start", "done", "threw"}

Init ==
  /\ rcVariant \in Variants
  /\ rcSignup \in { <<sc>> : sc \in RcSignupSet }
  /\ \E out \in { postAfterValidation(rcSignup[1].req, rcSignup[1].account,
                                      rcSignup[1].now, FALSE, rcSignup[1].outcome) } :
       /\ rcSub = <<withStoredRules(out.sub[1], rcSignup[1].stored)>>
       /\ rcCustomerMeta = out.customerMeta
  /\ rcSchedules = <<>>
  /\ rcPc = [p \in Deliveries |-> "start"]
  /\ rcLocal = [p \in Deliveries |-> idleLocal]
  /\ rcFailures = 0
  /\ tlIdle /\ suIdle /\ cdIdle /\ rsIdle /\ poIdle /\ whIdle /\ mhIdle /\ srIdle

\* the invocation ends: its locals are dropped
finished(p, pc, failed) ==
  /\ rcPc' = [rcPc EXCEPT ![p] = pc]
  /\ rcLocal' = [rcLocal EXCEPT ![p] = [idleLocal EXCEPT !.failed = failed,
                                                        !.solo = rcLocal[p].solo]]

goes(p, pc, local) ==
  /\ rcPc' = [rcPc EXCEPT ![p] = pc]
  /\ rcLocal' = [rcLocal EXCEPT ![p] = local]

\* a provider call answers, or fails while the failure budget lasts
callOutcome(ok) ==
  /\ ok \/ rcFailures < MaxFailures
  /\ rcFailures' = IF ok THEN rcFailures ELSE rcFailures + 1

\* ensureScheduleAttached: subscriptions.retrieve and the short-circuits
EnsureRetrieve(p) ==
  /\ rcPc[p] = "start"
  /\ \E ok \in BOOLEAN :
       /\ callOutcome(ok)
       /\ LET sub    == rcSub[1]
              alone  == \A q \in Deliveries \ {p} : ~inProgress(q)
              others == [q \in Deliveries |->
                           IF q # p /\ inProgress(q)
                           THEN [rcLocal[q] EXCEPT !.solo = FALSE] ELSE rcLocal[q]]
              mine   == [idleLocal EXCEPT !.solo = alone, !.failed = ~ok]
              next   == IF ~ok THEN "threw"
                        ELSE IF rcVariant = "scheduleAttach.ts"
                        THEN IF hasAttachedFlag(sub.metadata) \/ sub.schedule # <<>>
                             THEN "done" ELSE "upsertRetrieve"
                        ELSE IF sub.schedule # <<>> THEN "schedRetrieve"
                        ELSE IF hasAttachedFlag(sub.metadata) THEN "done"
                        ELSE "upsertRetrieve"
          IN  /\ rcPc' = [rcPc EXCEPT ![p] = next]
              /\ rcLocal' = [others EXCEPT ![p] =
                               IF next = "schedRetrieve"
                               THEN [mine EXCEPT !.meta = sub.metadata,
                                                 !.scheduleId = sub.schedule[1]]
                               ELSE mine]
  /\ UNCHANGED <<rcVariant, rcSignup, rcSub, rcCustomerMeta, rcSchedules>>
  /\ UNCHANGED <<tlVars, suVars, cdVars, rsVars, poVars, whVars, mhVars, srVars>>

\* part_005 lines 27-32: subscriptionSchedules.retrieve of the existing schedule
EnsureScheduleRetrieve(p) ==
  /\ rcPc[p] = "schedRetrieve"
  /\ \E ok \in BOOLEAN :
       /\ callOutcome(ok)
       /\ IF ~ok THEN finished(p, "threw", TRUE)
          ELSE IF ~hasAttachedFlag(rcLocal[p].meta)
          THEN goes(p, "markExisting", rcLocal[p])
          ELSE finished(p, "done", rcLocal[p].failed)
  /\ UNCHANGED <<rcVariant, rcSignup, rcSub, rcCustomerMeta, rcSchedules>>
  /\ UNCHANGED <<tlVars, suVars, cdVars, rsVars, poVars, whVars, mhVars, srVars>>

\* part_005 lines 33-41: subscriptions.update marks the subscription attached
EnsureMark(p) ==
  /\ rcPc[p] = "markExisting"
  /\ \E ok \in BOOLEAN :
       /\ callOutcome(ok)
       /\ IF ok
          THEN /\ rcSub' = <<[rcSub[1] EXCEPT !.metadata =
                   mergeMetadata(@, existingMarkMetadata(rcLocal[p].meta,
                                                          rcLocal[p].scheduleId))]>>
               /\ finished(p, "done", rcLocal[p].failed)
          ELSE /\ UNCHANGED rcSub
               /\ finished(p, "threw", TRUE)
  /\ UNCHANGED <<rcVariant, rcSignup, rcCustomerMeta, rcSchedules>>
  /\ UNCHANGED <<tlVars, suVars, cdVars, rsVars, poVars, whVars, mhVars, srVars>>

\* upsertScheduleFromSubscription up to the schedule creation: subscriptions.retrieve,
\* decode of the rules, flag, schedule and empty-rules returns
UpsertRetrieve(p) ==
  /\ rcPc[p] = "upsertRetrieve"
  /\ \E ok \in BOOLEAN :
       /\ callOutcome(ok)
       /\ IF ~ok THEN finished(p, "threw", TRUE)
          ELSE IF \/ hasAttachedFlag(rcSub[1].metadata)
                  \/ rcSub[1].schedule # <<>>
                  \/ readAddrRulesFromMeta(rcSub[1].metadata) = <<>>
          THEN finished(p, "done", rcLocal[p].failed)
          ELSE goes(p, "create", [rcLocal[p] EXCEPT !.meta = rcSub[1].metadata])
  /\ UNCHANGED <<rcVariant, rcSignup, rcSub, rcCustomerMeta, rcSchedules>>
  /\ UNCHANGED <<tlVars, suVars, cdVars, rsVars, poVars, whVars, mhVars, srVars>>

\* subscriptionSchedules.create({from_subscription}); the provider refuses a
\* subscription that already has a schedule, and the catch returns
UpsertCreate(p) ==
  /\ rcPc[p] = "create"
  /\ \E ok \in BOOLEAN :
       /\ callOutcome(ok)
       /\ IF ok /\ rcSub[1].schedule = <<>>
          THEN /\ rcSchedules' = Append(rcSchedules, [phases |-> <<copiedPhase(rcSub[1])>>])
               /\ rcSub' = <<[rcSub[1] EXCEPT !.schedule = <<Len(rcSchedules) + 1>>]>>
               /\ goes(p, "fresh", [rcLocal[p] EXCEPT !.scheduleId = Len(rcSchedules) + 1])
          ELSE /\ UNCHANGED <<rcSub, rcSchedules>>
               /\ finished(p, "done", TRUE)
  /\ UNCHANGED <<rcVariant, rcSignup, rcCustomerMeta>>
  /\ UNCHANGED <<tlVars, suVars, cdVars, rsVars, poVars, whVars, mhVars, srVars>>

\* subscriptionSchedules.retrieve of the created schedule: its first phase is preserved
UpsertFresh(p) ==
  /\ rcPc[p] = "fresh"
  /\ \E ok \in BOOLEAN :
       /\ callOutcome(ok)
       /\ IF ~ok \/ rcSchedules[rcLocal[p].scheduleId].phases = <<>>
                 \/ rcSchedules[rcLocal[p].scheduleId].phases[1].start_date = <<>>
          THEN finished(p, "threw", TRUE)
          ELSE goes(p, IF rcVariant = "scheduleAttach.ts" THEN "customer" ELSE "update",
                    [rcLocal[p] EXCEPT !.preserved =
                       <<rcSchedules[rcLocal[p].scheduleId].phases[1]>>])
  /\ UNCHANGED <<rcVariant, rcSignup, rcSub, rcCustomerMeta, rcSchedules>>
  /\ UNCHANGED <<tlVars, suVars, cdVars, rsVars, poVars, whVars, mhVars, srVars>>

\* scheduleAttach.ts lines 109-127: customers.retrieve inside try/catch
UpsertCustomer(p) ==
  /\ rcPc[p] = "customer"
  /\ \E ok \in BOOLEAN :
       /\ callOutcome(ok)
       /\ goes(p, "update",
               [rcLocal[p] EXCEPT !.seasonal = ok /\ customerSelectedSeasonal(rcCustomerMeta),
                                  !.failed = @ \/ ~ok])
  /\ UNCHANGED <<rcVariant, rcSignup, rcSub, rcCustomerMeta, rcSchedules>>
  /\ UNCHANGED <<tlVars, suVars, cdVars, rsVars, poVars, whVars, mhVars, srVars>>

\* the phase list the invocation is about to publish
rebuiltPhases(p) ==
  IF rcVariant = "scheduleAttach.ts"
  THEN rebuildPhases_scheduleAttach(readAddrRulesFromMeta(rcLocal[p].meta),
                                    rcLocal[p].preserved[1], rcLocal[p].seasonal)
  ELSE rebuildPhases_part005(readAddrRulesFromMeta(rcLocal[p].meta),
                             rcLocal[p].preserved[1])

\* timeline, phases and subscriptionSchedules.update; the catch logs and returns
UpsertUpdate(p) ==
  /\ rcPc[p] = "update"
  /\ \E ok \in BOOLEAN :
       /\ callOutcome(ok)
       /\ IF ok
          THEN /\ rcSchedules' = [rcSchedules EXCEPT ![rcLocal[p].scheduleId].phases =
                                    rebuiltPhases(p)]
               /\ goes(p, "mark", rcLocal[p])
          ELSE /\ UNCHANGED rcSchedules
               /\ finished(p, "done", TRUE)
  /\ UNCHANGED <<rcVariant, rcSignup, rcSub, rcCustomerMeta>>
  /\ UNCHANGED <<tlVars, suVars, cdVars, rsVars, poVars, whVars, mhVars, srVars>>

\* the closing subscriptions.update; a failure is logged and the function returns
UpsertMark(p) ==
  /\ rcPc[p] = "mark"
  /\ \E ok \in BOOLEAN :
       /\ callOutcome(ok)
       /\ rcSub' = IF ok
                   THEN <<[rcSub[1] EXCEPT !.metadata =
                             mergeMetadata(@, attachedMetadata(rcLocal[p].meta,
                                                               rcLocal[p].scheduleId))]>>
                   ELSE rcSub
       /\ finished(p, "done", rcLocal[p].failed \/ ~ok)
  /\ UNCHANGED <<rcVariant, rcSignup, rcCustomerMeta, rcSchedules>>
  /\ UNCHANGED <<tlVars, suVars, cdVars, rsVars, poVars, whVars, mhVars, srVars>>

Next ==
  \E p \in Deliveries :
    \/ EnsureRetrieve(p)
    \/ EnsureScheduleRetrieve(p)
    \/ EnsureMark(p)
    \/ UpsertRetrieve(p)
    \/ UpsertCreate(p)
    \/ UpsertFresh(p)
    \/ UpsertCustomer(p)
    \/ UpsertUpdate(p)
    \/ UpsertMark(p)

Spec == Init /\ [][Next]_vars

flagSet == rcSub # <<>> /\ hasAttachedFlag(rcSub[1].metadata)

\* the phase list ends with the open-ended base-only phase and every phase before
\* it is bounded; the phase copied from the subscription is bounded
holdsFullList(phases) ==
  /\ phases # <<>>
  /\ phases[Len(phases)].end_date = <<>>
  /\ \E q \in 1..Len(rcSignup[1].req.services) :
       phases[Len(phases)].items = <<baseItem(q)>>
  /\ \A i \in 1..(Len(phases) - 1) : phases[i].end_date # <<>>

scheduleAttachedInFull ==
  /\ Len(rcSchedules) = 1
  /\ rcSub[1].schedule = <<1>>
  /\ holdsFullList(rcSchedules[1].phases)
  /\ flagSet

\* an invocation that ran alone from retrieve to return, no provider call failing
settled ==
  /\ rcVariant # "off"
  /\ \E q \in Deliveries : rcPc[q] = "done" /\ rcLocal[q].solo /\ ~rcLocal[q].failed

\* an invocation that ran alone from retrieve to return
returned ==
  /\ rcVariant # "off"
  /\ \E q \in Deliveries : rcPc[q] = "done" /\ rcLocal[q].solo

FlagImpliesFullList ==
  (rcVariant # "off" /\ flagSet)
    => (rcSub[1].schedule # <<>> /\ holdsFullList(rcSchedules[rcSub[1].schedule[1]].phases))

\* C7: when overlapping invocations have all returned and no provider call failed,
\* exactly one schedule exists, it holds the full phase list and the flag is set.
InterleavedInvocationsConverge ==
  (/\ rcVariant # "off"
   /\ \A p \in Deliveries : rcPc[p] = "done"
   /\ \E p \in Deliveries : ~rcLocal[p].solo
   /\ rcFailures = 0)
    => scheduleAttachedInFull

\* C10: when no address was opted in at signup, the phase list the reconciler
\* published is a single open-ended base-only phase.
NoOptInSingleOpenPhase ==
  (/\ rcVariant # "off"
   /\ \A i \in 1..Len(rcSignup[1].req.selections) : rcSignup[1].req.selections[i] # "on"
   /\ rcSub[1].schedule # <<>>
   /\ rcSchedules[rcSub[1].schedule[1]].phases # <<copiedPhase(rcSub[1])>>)
    => (/\ Len(rcSchedules[rcSub[1].schedule[1]].phases) = 1
        /\ rcSchedules[rcSub[1].schedule[1]].phases[1].end_date = <<>>
        /\ rcSchedules[rcSub[1].schedule[1]].phases[1].items
             = <<baseItem(Len(rcSignup[1].req.services))>>)

\* the reconciler's subscriptionSchedules.update has replaced the copied phase
published ==
  /\ rcVariant # "off"
  /\ rcSub[1].schedule # <<>>
  /\ rcSchedules[rcSub[1].schedule[1]].phases # <<copiedPhase(rcSub[1])>>

\* C11: phase zero of the phase list the reconciler publishes is the phase that was
\* copied from the subscription, with the same start date, end date and items.
PublishedKeepsCurrentPhase ==
  published => rcSchedules[rcSub[1].schedule[1]].phases[1] = copiedPhase(rcSub[1])

\* one service address, not opted in, has been run through buildSignupPhases
singleNoOptIn == suPc = "done" /\ Len(suServices) = 1 /\ ~suSelections[1]

\* C12 (as stated): a single address with no opt-in yields exactly one phase,
\* open-ended, with only the base item at quantity 1.
SingleAddressOnePhase == singleNoOptIn => suPhases = <<openEndedPhase(1)>>

\* C12 (amended): a single address with no opt-in yields exactly one open-ended
\* phase, the last one, with only the base item at quantity 1; every phase before
\* it is a pre-anchor stub that ends at the next month start and carries only the
\* base item at quantity 1.
SingleAddressOneOpenPhase ==
  singleNoOptIn =>
    /\ suPhases # <<>>
    /\ suPhases[Len(suPhases)] = openEndedPhase(1)
    /\ \A i \in 1..(Len(suPhases) - 1) :
         suPhases[i] = boundedPhase(nextMonthFirstEpoch(suNow), 1, 0)

\* a Surf City address without opt-in, signed up in the middle of its season
SingleAddressWitness ==
  /\ singleNoOptIn
  /\ suServices[1] = addrSurfCity
  /\ suNow = DateUTC(Y2025, 6, 15)
  /\ Len(suPhases) >= 2

\* one Surf City address (season May 1 to Sep 30), opted in, signed up on Apr 15
surfCityApril ==
  /\ suPc = "done"
  /\ suServices = <<addrSurfCity>> /\ suSelections = <<TRUE>>
  /\ suNow = DateUTC(Y2025, 3, 15)

AnchorAtMonthStart ==
  (suPc = "done" /\ IsMonthStart(suNow)) =>
    /\ suOut[1].nextFirst = suNow
    /\ \A i \in 1..Len(suPhases) : suPhases[i].end_date # <<suOut[1].nextFirst>>

\* the phase buildSignupPhases made for the i-th emitted slice: the slice phases
\* stand directly before the open-ended tail
slicePhase(sl, i) == suPhases[Len(suPhases) - 1 - Len(sl) + i]

\* C15: the phase of a slice has a duration of K months exactly when the slice runs
\* from a month start to the month start K >= 1 months later, and an explicit end
\* date equal to the slice end otherwise; the stub has an explicit end date.
DurationForWholeMonths ==
  suPc = "done" =>
    LET sl == emittedSlices(buildTimeline(suServices, suSelections, suNow), suOut[1].nextFirst)
    IN  /\ suPhases[1].end_date # <<>> \/ Len(suPhases) = 1
        /\ \A i \in 1..Len(sl) :
             IF IsMonthStart(sl[i].start) /\ IsMonthStart(sl[i].end)
             THEN /\ slicePhase(sl, i).duration = <<monthsBetweenEpochs(sl[i].start, sl[i].end)>>
                  /\ slicePhase(sl, i).end_date = <<>>
             ELSE /\ slicePhase(sl, i).end_date = <<sl[i].end>>
                  /\ slicePhase(sl, i).duration = <<>>

\* the timeline the emitter walks, and the slices of it inside the look-ahead horizon
suTimeline == buildTimeline(suServices, suSelections, suNow)

inHorizon(slice, anchor) ==
  slice.start >= anchor /\ slice.start <= anchor + NINETY_DAYS_SEC

\* bounded phases that end after the anchor (the pre-anchor stub ends at the anchor)
boundedAfterAnchor ==
  { i \in 1..Len(suPhases) :
      ~isOpenEnded(suPhases[i]) /\ suPhases[i].end_date[1] > suOut[1].nextFirst }

PHASE_LIMIT == 10

intendedRules(text) == (CHOOSE c \in StoredChunks : c.text = text).rules

\* C18: the decoded list is the concatenation, over addr_rules, addr_rules_2 and
\* addr_rules_10 in that order, of the rules of every present chunk that is a JSON
\* array, with numeric fields as numbers; other keys and other chunks add nothing.
ReadInKeyOrderSkippingBadChunks ==
  cdPc = "read" =>
    cdDecoded = Flatten([i \in 1..Len(StoredKeyOrder) |->
                   IF StoredKeyOrder[i] \in DOMAIN cdMeta
                   THEN intendedRules(cdMeta[StoredKeyOrder[i]]) ELSE <<>>])

ReadInKeyOrderWitness ==
  /\ cdPc = "read"
  /\ ForeignKeys \subseteq DOMAIN cdMeta
  /\ \A i \in 1..3 : StoredKeyOrder[i] \in DOMAIN cdMeta
  /\ intendedRules(cdMeta[StoredKeyOrder[1]]) = <<>>
  /\ cdMeta[StoredKeyOrder[2]] = stringifyRules(<<ruleNorthTopsail>>)
  /\ cdDecoded = <<ruleNorthTopsail, ruleWilmington, ruleNorthTopsail>>

\* a request with an email and an empty list of service addresses was answered
noAddress == poPc = "answered" /\ poReq[1].email /\ poReq[1].services = <<>>

nothingCreated == poCalls = <<>> /\ poSub = <<>> /\ poCustomerMeta = <<>>

whsec == "whsec"

EventIds == {"evt_1", "evt_2"}

\* event.type with the fields of event.data.object the handlers read
EventKinds ==
  { [type |-> "invoice.paid", sub |-> v, status |-> "", stashed |-> FALSE] :
      v \in {"field", "line", "none"} }
  \cup { [type |-> "customer.subscription.updated", sub |-> "", status |-> st, stashed |-> b] :
           st \in {"active", "past_due", "canceled"}, b \in BOOLEAN }
  \cup { [type |-> t, sub |-> "", status |-> "", stashed |-> FALSE] :
           t \in {"invoice.payment_failed", "subscription_schedule.created",
                  "subscription_schedule.updated", "charge.succeeded"} }

WebhookRequests ==
  { [header |-> h, event |-> [id |-> id, kind |-> k]] :
      h \in {<<>>, <<whsec>>, <<"other">>}, id \in EventIds, k \in EventKinds }

MaxWebhookRequests == 2

\* variant that accepts every signature
constructEvent_anySignature(req, secret) == <<req.event>>

\* Stripe.webhooks.constructEvent(rawBody, sig, requireWebhookSecret()): the event,
\* or <<>> when the secret is not configured or the signature does not match
constructEvent(req, secret) ==
  IF secret # <<>> /\ req.header = secret THEN <<req.event>> ELSE <<>>

\* getSubscriptionIdFromInvoice for an invoice without subscription field: the
\* invoice is fetched again and its lines are scanned
invoiceSubLookup(kind) ==
  IF kind.sub = "field" THEN <<>> ELSE <<"invoices.retrieve">>

\* the switch on event.type: handlers, provider calls and reconciler entries, in order
handlerSteps(kind) ==
  IF kind.type = "invoice.paid"
  THEN <<"invoices.retrieve", "onInvoicePaid">> \o invoiceSubLookup(kind)
       \o (IF kind.sub # "none" THEN <<"ensureScheduleAttached">> ELSE <<>>)
  ELSE IF kind.type = "invoice.payment_failed" THEN <<"onInvoiceFailed">>
  ELSE IF kind.type = "customer.subscription.updated"
  THEN <<"onSubscriptionUpdated">>
       \o (IF kind.status \in {"active", "trialing", "past_due", "unpaid"}
           THEN <<"ensureScheduleAttached">> ELSE <<>>)
       \o (IF kind.status = "active" /\ kind.stashed
           THEN <<"upsertScheduleFromSubscription">> ELSE <<>>)
  ELSE IF kind.type \in {"subscription_schedule.created", "subscription_schedule.updated"}
  THEN <<"onScheduleUpserted">>
  ELSE <<>>

\* steps that call the provider
callsProvider(step) ==
  step \in {"invoices.retrieve", "ensureScheduleAttached", "upsertScheduleFromSubscription"}

\* the steps run when the first provider call throws
stepsUntilThrow(steps) ==
  SubSeq(steps, 1, SetMin({ i \in 1..Len(steps) : callsProvider(steps[i]) }))

answer(status, body) == [status |-> status, body |-> body]

\* POST of the webhook route, from the request to the answer
webhookOutcome(req, secret, seen, throws) ==
  IF req.header = <<>>
  THEN [resp |-> answer(400, "Missing Stripe signature"), seen |-> seen, steps |-> <<>>]
  ELSE IF constructEvent(req, secret) = <<>>
  THEN [resp |-> answer(400, "Webhook Error"), seen |-> seen, steps |-> <<>>]
  ELSE LET event == constructEvent(req, secret)[1]
           steps == handlerSteps(event.kind)
       IN  IF event.id \in seen
           THEN [resp |-> answer(200, "received, deduped"), seen |-> seen, steps |-> <<>>]
           ELSE IF throws
           THEN [resp |-> answer(500, "Handler error"), seen |-> seen \cup {event.id},
                 steps |-> stepsUntilThrow(steps)]
           ELSE [resp |-> answer(200, "received"), seen |-> seen \cup {event.id},
                 steps |-> steps]

InitWebhook ==
  /\ whSecret \in {<<>>, <<whsec>>}
  /\ whSeen = {} /\ whLast = <<>> /\ whCount = 0
  /\ tlIdle /\ suIdle /\ cdIdle /\ rsIdle /\ poIdle /\ rcIdle /\ mhIdle /\ srIdle

WebhookPost ==
  /\ whCount < MaxWebhookRequests
  /\ \E req \in WebhookRequests, throws \in BOOLEAN :
       /\ throws => \E i \in 1..Len(handlerSteps(req.event.kind)) :
                       callsProvider(handlerSteps(req.event.kind)[i])
       /\ \E out \in { webhookOutcome(req, whSecret, whSeen, throws) } :
            /\ whSeen' = out.seen
            /\ whLast' = <<[req |-> req, resp |-> out.resp, steps |-> out.steps]>>
  /\ whCount' = whCount + 1
  /\ UNCHANGED <<whSecret, tlVars, suVars, cdVars, rsVars, poVars, rcVars, mhVars, srVars>>

NextWebhook == WebhookPost

SpecWebhook == InitWebhook /\ [][NextWebhook]_vars

\* the request carries no signature header, or one that does not verify
unverified(req) == req.header = <<>> \/ req.header # <<whsec>> \/ whSecret # <<whsec>>

\* C20: a request without signature header or with a failing verification is
\* answered 400, leaves the dedupe set as it was and runs no handler, no reconciler
\* and no provider call.
UnverifiedRequestRejected ==
  [][(whCount' # whCount /\ unverified(whLast'[1].req))
       => /\ whLast'[1].resp.status = 400
          /\ whLast'[1].steps = <<>>
          /\ whSeen' = whSeen]_vars

\* after a verified event was processed, a request with a wrong signature for a new
\* event id was turned down
UnverifiedRequestWitness ==
  /\ whLast # <<>> /\ whSecret = <<whsec>>
  /\ whLast[1].req.header = <<"other">>
  /\ whLast[1].req.event.kind.type = "invoice.paid"
  /\ whLast[1].resp = answer(400, "Webhook Error")
  /\ whSeen # {} /\ whLast[1].req.event.id \notin whSeen

(* ------------------------------------------------------------------ *)
(* monthStartsBetween and monthsBetweenEpochs, step by step (SpecMonths) *)
(* ------------------------------------------------------------------ *)

\* epochs offered: from 2025-10-28 on, across the turn of the year
MhFirstEpoch == DateUTC(Y2025, 9, 28)

MhSpan == 70

MhEpochs == MhFirstEpoch..(MhFirstEpoch + MhSpan)

InitMonths ==
  /\ mhMinStart \in MhEpochs /\ mhMaxEnd \in MhEpochs
  /\ mhCur = 0 /\ mhResult = <<>> /\ mhCount = 0 /\ mhPc = "input"
  /\ tlIdle /\ suIdle /\ cdIdle /\ rsIdle /\ poIdle /\ rcIdle /\ whIdle /\ srIdle

\* const first = ...; const result = []; let cur = first
MsbFirst ==
  /\ mhPc = "input"
  /\ mhCur' = firstMonthStart(mhMinStart)
  /\ mhPc' = "loop"
  /\ UNCHANGED <<mhMinStart, mhMaxEnd, mhResult, mhCount>>
  /\ UNCHANGED <<tlVars, suVars, cdVars, rsVars, poVars, rcVars, whVars, srVars>>

\* one turn of the while loop
MsbPush ==
  /\ mhPc = "loop" /\ loopContinues(mhCur, mhMaxEnd)
  /\ mhResult' = Append(mhResult, mhCur)
  /\ mhCur' = startOfMonthUtcEpoch(getUTCFullYear(mhCur), getUTCMonth(mhCur) + 1)
  /\ UNCHANGED <<mhMinStart, mhMaxEnd, mhCount, mhPc>>
  /\ UNCHANGED <<tlVars, suVars, cdVars, rsVars, poVars, rcVars, whVars, srVars>>

\* return result; monthsBetweenEpochs returns its length
MsbReturn ==
  /\ mhPc = "loop" /\ ~loopContinues(mhCur, mhMaxEnd)
  /\ mhCount' = Len(mhResult)
  /\ mhPc' = "done"
  /\ UNCHANGED <<mhMinStart, mhMaxEnd, mhCur, mhResult>>
  /\ UNCHANGED <<tlVars, suVars, cdVars, rsVars, poVars, rcVars, whVars, srVars>>

NextMonths == MsbFirst \/ MsbPush \/ MsbReturn

SpecMonths == InitMonths /\ [][NextMonths]_vars

\* the function runs on: a call is not abandoned half way
SpecMonthsFair == SpecMonths /\ WF_vars(NextMonths)

\* UTC month starts of the years around the offered epochs
MonthStartEpochs == { y * DaysPerYear + MonthOffset[k] : y \in 0..3, k \in 1..12 }

ascending(list) == \A i \in 1..(Len(list) - 1) : list[i] < list[i + 1]

\* C21 (as stated): the result lists, ascending, exactly the month starts m with
\* minStart < m < maxEnd, and the count is its length.
MonthStartsStrictlyBetween ==
  mhPc = "done" =>
    /\ ascending(mhResult)
    /\ Range(mhResult) = { m \in MonthStartEpochs : mhMinStart < m /\ m < mhMaxEnd }
    /\ mhCount = Len(mhResult)

\* C21 (amended): the result lists, ascending, exactly the month starts m with
\* minStart <= m < maxEnd, and the count is its length.
MonthStartsFromInclusive ==
  mhPc = "done" =>
    /\ ascending(mhResult)
    /\ Range(mhResult) = { m \in MonthStartEpochs : mhMinStart <= m /\ m < mhMaxEnd }
    /\ mhCount = Len(mhResult)

\* from 2025-12-01 to past 2026-01-01: December and January are listed
MonthStartsWitness ==
  /\ mhPc = "done"
  /\ mhMinStart = DateUTC(Y2025, 11, 1)
  /\ mhResult = <<DateUTC(Y2025, 11, 1), DateUTC(Y2025 + 1, 0, 1)>>
  /\ mhCount = 2

\* C22: every call returns, and for minStart >= maxEnd it returns the empty list
\* and the count 0.
EmptyWhenNotBefore ==
  /\ [](mhPc = "done" /\ mhMinStart >= mhMaxEnd => mhResult = <<>> /\ mhCount = 0)
  /\ <>(mhPc = "done")

\* a call with minStart = maxEnd = a month start returned
EmptyWhenNotBeforeWitness ==
  /\ mhPc = "done"
  /\ mhMinStart = mhMaxEnd /\ mhMinStart \in MonthStartEpochs
  /\ mhResult = <<>>

\* the seasonal windows stored with the subscription
subscriptionWindows ==
  seasonalWindows(IF rcSignup[1].stored # <<>> THEN rcSignup[1].stored[1]
                  ELSE buildAddrRulesCompact(rcSignup[1].req.services).compact)

\* some window contains every instant of [from, to)
withinSeason(windows, from, to) ==
  \A t \in from..(to - 1) :
     \E k \in 1..Len(windows) : windows[k].start <= t /\ t < windows[k].end

\* start of phase i of a published list: its own start date, else the end of the
\* phase before it
phaseStart(phases, i) ==
  IF phases[i].start_date # <<>> THEN phases[i].start_date[1] ELSE phases[i - 1].end_date[1]

\* C23: in the published phase list a bounded phase that carries the seasonal item
\* lies inside the seasonal windows of the subscription at each of its instants.
SeasonalItemOnlyInSeason ==
  published =>
    LET phases == rcSchedules[rcSub[1].schedule[1]].phases
    IN  \A i \in 1..(Len(phases) - 1) :
           Len(phases[i].items) > 1
             => withinSeason(subscriptionWindows, phaseStart(phases, i), phases[i].end_date[1])

\* opted-in services with a window that overlaps [nowEpoch, anchor)
stubSeasonalServices ==
  { i \in 1..Len(suServices) :
      /\ suSelections[i]
      /\ \E w \in Range(seasonWindowsForAddress(suServices[i], suNow)) :
           w.start < suOut[1].nextFirst /\ w.end > suNow }

\* C24: the stub [nowEpoch, anchor) has the base item at quantity = number of
\* services, and the seasonal item exactly when some opted-in service has a window
\* overlapping the stub, its quantity being the number of such services.
StubSeasonalQuantity ==
  suPc = "done" =>
    /\ suPhases[1].end_date = <<suOut[1].nextFirst>>
    /\ suPhases[1].items =
         IF stubSeasonalServices = {} THEN <<baseItem(Len(suServices))>>
         ELSE <<baseItem(Len(suServices)), seasonalItem(Cardinality(stubSeasonalServices))>>

\* two services whose windows overlap the stub, one opted in (its window begins
\* after nowEpoch), the other not
StubSeasonalQuantityWitness ==
  /\ suPc = "done" /\ Len(suServices) = 2
  /\ suSelections = <<TRUE, FALSE>>
  /\ Cardinality(stubSeasonalServices) = 1
  /\ \A i \in 1..2 : \E w \in Range(seasonWindowsForAddress(suServices[i], suNow)) :
        w.start > suNow /\ w.start < suOut[1].nextFirst
  /\ suPhases[1].items = <<baseItem(2), seasonalItem(1)>>

\* quantity of the seasonal item of a phase, 0 when it has none
seasonalQtyOf(phase) == IF Len(phase.items) > 1 THEN phase.items[2].quantity ELSE 0

boundedEndsAfterStart(phases, currentStart) ==
  \A i \in 1..(Len(phases) - 1) : phases[i].end_date[1] > currentStart

boundedEndsIncrease(phases) ==
  \A i \in 1..(Len(phases) - 2) : phases[i].end_date[1] < phases[i + 1].end_date[1]

neighboursDiffer(phases) ==
  \A i \in 1..(Len(phases) - 2) : seasonalQtyOf(phases[i]) # seasonalQtyOf(phases[i + 1])

\* C25: in the published list every bounded phase ends after the start of the
\* current phase, the end dates of the bounded phases increase strictly, and two
\* consecutive bounded phases never carry the same seasonal quantity.
RebuiltListConsolidated ==
  published =>
    /\ boundedEndsAfterStart(rcSchedules[rcSub[1].schedule[1]].phases, rcSub[1].created)
    /\ boundedEndsIncrease(rcSchedules[rcSub[1].schedule[1]].phases)
    /\ neighboursDiffer(rcSchedules[rcSub[1].schedule[1]].phases)

\* the windows of the request-time derivation for the subscription's signup
requestWindows ==
  signupWindows(rcSignup[1].req.services, optedIn(rcSignup[1].req.selections),
                rcSub[1].created)

\* the value the request-time timeline has at instant t: the count of the slice
\* that contains t, 0 outside every slice
requestCountAt(t) ==
  LET tl == buildTimeline(rcSignup[1].req.services, optedIn(rcSignup[1].req.selections),
                          rcSub[1].created)
  IN  IF \E i \in 1..Len(tl) : tl[i].start <= t /\ t < tl[i].end
      THEN (CHOOSE sl \in Range(tl) : sl.start <= t /\ t < sl.end).seasonalActiveCount
      ELSE 0

\* the seasonal quantity of the phase of a published list that contains t
publishedQtyAt(phases, t) ==
  LET i == CHOOSE k \in 1..Len(phases) :
             /\ phaseStart(phases, k) <= t
             /\ (phases[k].end_date = <<>> \/ t < phases[k].end_date[1])
  IN  seasonalQtyOf(phases[i])

lastWindowEnd ==
  SetMax({ rcSub[1].created }
           \cup { seasonWindowsForAddress(rcSignup[1].req.services[i], rcSub[1].created)[1].end :
                    i \in { j \in 1..Len(rcSignup[1].req.services) :
                              seasonWindowsForAddress(rcSignup[1].req.services[j],
                                                      rcSub[1].created) # <<>> } })

\* C26: with no provider call failing, at every instant from the current phase
\* start to the last window end the published list carries the seasonal quantity
\* of the request-time timeline, the number of opted-in addresses whose window
\* contains the instant.
ReconcilerAgreesWithRequestTimeline ==
  (published /\ rcFailures = 0 /\ rcSignup[1].stored = <<>>) =>
    \A t \in rcSub[1].created..(lastWindowEnd - 1) :
       /\ requestCountAt(t) = Cardinality({ k \in 1..Len(requestWindows) :
                                              requestWindows[k].start <= t
                                                /\ t < requestWindows[k].end })
       /\ publishedQtyAt(rcSchedules[rcSub[1].schedule[1]].phases, t) = requestCountAt(t)

\* the positions of a handler invocation
RcPositions ==
  {"start", "schedRetrieve", "markExisting", "upsertRetrieve", "create", "fresh",
   "customer", "update", "mark", "done", "threw"}

\* the handler of delivery p takes its next step: every step of an invocation
\* moves its position, and an invocation that has not returned or thrown always
\* has a next step (a provider call answers or fails)
advances(p) ==
  /\ rcPc[p] \notin {"done", "threw"}
  /\ \E pc \in RcPositions : rcPc' = [rcPc EXCEPT ![p] = pc]

\* every notification is delivered and its handler runs on to its return
SpecFair == Spec /\ \A p \in Deliveries : WF_rcPc(advances(p))

\* C27: under fair delivery, unless a provider call fails, the subscription
\* eventually has its schedule with the full phase list and the flag set,
\* whatever the number of service addresses.
EventuallyAttached == <>(rcFailures > 0 \/ scheduleAttachedInFull)

\* the last delivery was a verified event whose handler failed
answeredHandlerError ==
  whLast # <<>> /\ whLast[1].resp = answer(500, "Handler error")

\* C28: when the delivery of a verified event was answered 500 and the same event
\* id is delivered again with a valid signature, the event is handled again: the
\* delivery is not answered as a duplicate and its handler steps run.
FailedEventHandledAgain ==
  [][(/\ answeredHandlerError
      /\ whCount' # whCount
      /\ ~unverified(whLast'[1].req)
      /\ whLast'[1].req.event.id = whLast[1].req.event.id)
       => /\ whLast'[1].resp # answer(200, "received, deduped")
          /\ whLast'[1].steps # <<>>]_vars

\* what POST hands to subscriptions.create for a request: the idempotency key, and
\* the line items, billing anchor and metadata
subscriptionCreateCall(req, account, now) ==
  Only({ [key |-> subCreateIdem(built, account),
          params |-> [items |-> built.phases[1].items,
                      billing_cycle_anchor |-> built.nextFirst,
                      metadata |-> signupMetadata(req.services, account)]] :
         built \in { buildSignupPhases(req.services, optedIn(req.selections), now) } })

\* the requests of the same customer with as many addresses as the handled one
\* that pass the validations
otherRequests ==
  { r \in { [email |-> TRUE, services |-> svcs, selections |-> sels] :
              svcs \in [1..Len(poReq[1].services) -> PostServiceSet],
              sels \in [1..Len(poReq[1].services) -> {"on", "off"}] } :
      postEarlyResponse(r) = <<>> }

\* C29: a request for which POST created the subscription shares its
\* subscription-create idempotency key only with requests that send the same
\* subscription-create parameters.
SameKeySameParameters ==
  (poPc = "answered" /\ poSub # <<>>) =>
    \A r \in otherRequests :
       \A mine \in { subscriptionCreateCall(poReq[1], poAccount, poSub[1].created) },
          theirs \in { subscriptionCreateCall(r, poAccount, poSub[1].created) } :
          mine.key = theirs.key => mine.params = theirs.params

(* ------------------------------------------------------------------ *)
(* Success screen: SubscriptionResults (src/unnamed/part_002)          *)
(* ------------------------------------------------------------------ *)

MAX_POLL_ATTEMPTS == 5

\* largest number of schedule phases an overview response reports
MaxPhaseCount == 4

\* fetches followed per mount
MaxFetches == 8

\* what a fetch of the overview endpoint brings: a failure (response not ok), or
\* a body whose schedule has the given number of phases (0: no schedule, or none yet)
OverviewResponses ==
  {[ok |-> FALSE, phases |-> 0]} \cup { [ok |-> TRUE, phases |-> n] : n \in 0..MaxPhaseCount }

shouldStopPolling(pollAttempts, lastPhaseCount, currentPhaseCount) ==
  \/ pollAttempts >= MAX_POLL_ATTEMPTS - 1
  \/ (currentPhaseCount > 0 /\ currentPhaseCount = lastPhaseCount)
  \/ (currentPhaseCount = 0 /\ pollAttempts >= 2)
  \/ (pollAttempts = 0 /\ currentPhaseCount >= 3)

InitResults ==
  /\ srIds \in [subscriptionId : BOOLEAN, customerId : BOOLEAN]
  /\ srData = <<>> /\ srLoading = TRUE /\ srError = FALSE
  /\ srPollAttempts = 0 /\ srLastPhaseCount = 0 /\ srClosure = <<>>
  /\ srFetches = 0 /\ srPc = "mounted"
  /\ tlIdle /\ suIdle /\ cdIdle /\ rsIdle /\ poIdle /\ rcIdle /\ whIdle /\ mhIdle

\* the effect after the first render calls fetchData; that function object holds
\* the pollAttempts and lastPhaseCount of the render that created it
SrEffect ==
  /\ srPc = "mounted"
  /\ srClosure' = <<[pollAttempts |-> srPollAttempts, lastPhaseCount |-> srLastPhaseCount]>>
  /\ IF ~srIds.subscriptionId /\ ~srIds.customerId
     THEN /\ srError' = TRUE /\ srLoading' = FALSE
          /\ srPc' = "stopped"
          /\ UNCHANGED srFetches
     ELSE /\ srFetches' = srFetches + 1
          /\ srPc' = "fetching"
          /\ UNCHANGED <<srError, srLoading>>
  /\ UNCHANGED <<srIds, srData, srPollAttempts, srLastPhaseCount>>
  /\ UNCHANGED <<tlVars, suVars, cdVars, rsVars, poVars, rcVars, whVars, mhVars>>

\* the fetch settles: the .then chain or the .catch of fetchData
SrSettle ==
  /\ srPc = "fetching"
  /\ \E r \in OverviewResponses :
       IF ~r.ok
       THEN /\ srError' = TRUE /\ srLoading' = FALSE
            /\ srPc' = "stopped"
            /\ UNCHANGED <<srData, srPollAttempts, srLastPhaseCount>>
       ELSE /\ srData' = <<r.phases>>
            /\ IF shouldStopPolling(srClosure[1].pollAttempts, srClosure[1].lastPhaseCount,
                                    r.phases)
               THEN /\ srLoading' = FALSE
                    /\ srPollAttempts' = 0 /\ srLastPhaseCount' = 0
                    /\ srPc' = "stopped"
               ELSE /\ srLastPhaseCount' = r.phases
                    /\ srPollAttempts' = srPollAttempts + 1
                    /\ srPc' = "timer"
                    /\ UNCHANGED srLoading
            /\ UNCHANGED srError
  /\ UNCHANGED <<srIds, srClosure, srFetches>>
  /\ UNCHANGED <<tlVars, suVars, cdVars, rsVars, poVars, rcVars, whVars, mhVars>>

\* setTimeout(fetchData, 1000) fires: the same function object runs again
SrTimer ==
  /\ srPc = "timer"
  /\ srFetches < MaxFetches
  /\ srFetches' = srFetches + 1
  /\ srPc' = "fetching"
  /\ UNCHANGED <<srIds, srData, srLoading, srError, srPollAttempts, srLastPhaseCount, srClosure>>
  /\ UNCHANGED <<tlVars, suVars, cdVars, rsVars, poVars, rcVars, whVars, mhVars>>

NextResults == SrEffect \/ SrSettle \/ SrTimer

SpecResults == InitResults /\ [][NextResults]_vars

\* C30: after the mount with an id the component fetches the overview endpoint at
\* most MAX_POLL_ATTEMPTS times, whatever the responses contain.
AtMostMaxPollFetches == srFetches <= MAX_POLL_ATTEMPTS

====
